---- MODULE Spec2Model ----
(***************************************************************************)
(* Model of paniten-bot: the alert repository (src/src/database.js,        *)
(* class Database), the callback-query lifecycle controller (class         *)
(* PanitenBot in the same file) and the helpers of utils they use.         *)
(*                                                                         *)
(* Conventions.  A JavaScript string is a sequence of words (join(' ') of  *)
(* the parts) or, for callback tokens, a sequence of characters.  A        *)
(* nullable value is a set with at most one element: {} is NULL/undefined, *)
(* {v} is the value v.                                                     *)
(***************************************************************************)
EXTENDS Integers, Sequences, FiniteSets, Bags, TLC

(* ------------------------------ bounds -------------------------------- *)
MaxAlerts == 2
MaxPosts == 1
MaxTime == 2
NumCalls == 2
NumQueries == 2

VARIABLES
    alerts,     \* the alerts table: row i is the row with id = i
    now,        \* the clock read by strftime('%s','now')
    calls,      \* direct calls of Database.acknowledgeAlert / resolveAlert
    chat,       \* the messages of the configured chat, by message_id
    delivery,   \* per alert: progress of PanitenBot.sendAlert
    queries,    \* the callback_query handlers of PanitenBot suspended at an
                \* await: a bag of their locals
    answered,   \* the bot.answerCallbackQuery being made and the request it
                \* answers, null when none is
    wins,       \* per alert: how many acknowledgeAlert / resolveAlert calls
                \* have returned true so far (counted up to WinCap)
    response,   \* the last POST /api/alert: its body and the response sent
    mapped,     \* the last call of mapSeverity: its arguments and its result
    config,     \* env.js: WEBHOOK_SECRET, and whether BOT_TOKEN and CHAT_ID
                \* are set
    request,    \* the POST /api/alert being handled or handled last: its
                \* header and body, where its handler stands, its response
    report,     \* the last /report: what the three report queries returned
    command,    \* the last text command: who sent it, the reply and the
                \* repository queries its handler made
    db          \* the Database object: how far its init() has come,
                \* isInitialized, and the operations called on it

vars == <<alerts, now, calls, chat, delivery, queries, answered, wins,
          response, mapped, config, request, report, command, db>>

(* --------------------------- nullable values --------------------------- *)
NULL == {}
Some(v) == {v}
Val(o) == CHOOSE v \in o : TRUE
\* JavaScript truthiness of a nullable string: undefined, null and '' are falsy
Truthy(o) == o # NULL /\ o # Some(<<>>)
\* a || b
Or(a, b) == IF Truthy(a) THEN a ELSE b

(* ---------------------------- configuration ---------------------------- *)
\* env.js with a webhook secret, a bot token, a chat, and the user with id
\* 101 as the only authorized user
Configured ==
    [WEBHOOK_SECRET |-> Some("s3cret"), BOT_TOKEN |-> TRUE, CHAT_ID |-> TRUE,
     AUTHORIZED_USERS |-> << <<"1", "0", "1">> >>]

(* ------------------------ the Database object -------------------------- *)
\* new Database(): db is null and isInitialized false until init() has run;
\* stage is the statement of init() whose callback is awaited, indexes the
\* indexes created, ran the number of callbacks of createIndexes that have
\* run, completed and hasError its locals, waiting the operations in
\* waitForInit, issued those whose SQL statement has been issued
NewDatabase ==
    [stage |-> "open", table |-> FALSE, indexes |-> {}, ran |-> 0, completed |-> 0,
     hasError |-> FALSE, isInitialized |-> FALSE, waiting |-> {}, issued |-> {}]

\* the Database object once init() has succeeded
ReadyDatabase ==
    [NewDatabase EXCEPT !.stage = "done", !.table = TRUE, !.indexes = 1..4,
                        !.ran = 4, !.completed = 4, !.isInitialized = TRUE]

\* the other variables stay as they are
OnlyDb ==
    UNCHANGED <<alerts, now, calls, chat, delivery, queries, answered, wins,
                response, mapped, config, request, report, command>>

\* the callback of new sqlite3.Database(...): on an error init() rejects;
\* else configurePragmas, which always resolves, then setupDatabase
openDatabase(err) ==
    /\ db.stage = "open"
    /\ db' = [db EXCEPT !.stage = IF err THEN "failed" ELSE "setup"]
    /\ OnlyDb

\* the callback of the SELECT on sqlite_master of setupDatabase: an error
\* rejects; a row means the table exists and its columns are checked; no
\* row means the table is to be created
setupDatabase(err, row) ==
    /\ db.stage = "setup"
    /\ db' = IF err THEN [db EXCEPT !.stage = "failed"]
             ELSE IF row THEN [db EXCEPT !.stage = "columns", !.table = TRUE]
             ELSE [db EXCEPT !.stage = "createTable"]
    /\ OnlyDb

\* checkAndAddMetadataColumn or createTable has run: an error rejects, else
\* createIndexes issues its four statements
createTable(err) ==
    /\ db.stage \in {"columns", "createTable"}
    /\ db' = IF err THEN [db EXCEPT !.stage = "failed"]
             ELSE [db EXCEPT !.stage = "indexes", !.table = TRUE]
    /\ OnlyDb

\* the callback of the next CREATE INDEX of createIndexes: the first error
\* rejects and returns; any other callback counts, and the fourth count
\* without an error sets isInitialized
createIndexes(err) ==
    /\ db.stage = "indexes" \/ (db.stage = "failed" /\ db.hasError)
    /\ db.ran < 4
    /\ LET ran == db.ran + 1
           created == IF err THEN db.indexes ELSE db.indexes \cup {ran}
       IN db' = IF err /\ ~db.hasError
                THEN [db EXCEPT !.ran = ran, !.hasError = TRUE, !.stage = "failed"]
                ELSE IF db.completed + 1 = 4 /\ ~db.hasError
                THEN [db EXCEPT !.ran = ran, !.indexes = created, !.completed = 4,
                                !.isInitialized = TRUE, !.stage = "done"]
                ELSE [db EXCEPT !.ran = ran, !.indexes = created,
                                !.completed = @ + 1]
    /\ OnlyDb

\* the operations called on the Database object
Operations == {"createAlert", "acknowledgeAlert", "getAlertById"}

\* an operation is called: await this.waitForInit() resolves at once when
\* isInitialized is set, and the statement is issued; else checkInit is
\* scheduled every 100 ms
waitForInit(op) ==
    /\ op \notin db.waiting \cup db.issued
    /\ db' = IF db.isInitialized THEN [db EXCEPT !.issued = @ \cup {op}]
             ELSE [db EXCEPT !.waiting = @ \cup {op}]
    /\ OnlyDb

\* checkInit runs and finds isInitialized set: the promise resolves and the
\* statement is issued (when it is not set, checkInit is scheduled again)
checkInit_Unready(op) ==
    /\ op \in db.waiting
    /\ db' = [db EXCEPT !.waiting = @ \ {op}, !.issued = @ \cup {op}]
    /\ OnlyDb
checkInit(op) ==
    /\ op \in db.waiting
    /\ db.isInitialized
    /\ db' = [db EXCEPT !.waiting = @ \ {op}, !.issued = @ \cup {op}]
    /\ OnlyDb

(* ------------------------------- actors -------------------------------- *)
\* query.from of the Telegram users that press buttons
Users == {
    [username |-> Some(<<"alice">>), id |-> 101,
     first_name |-> Some(<<"Alice">>), last_name |-> Some(<<"Liddell">>)],
    [username |-> Some(<<"bob">>), id |-> 102,
     first_name |-> NULL, last_name |-> NULL],
    [username |-> NULL, id |-> 103,
     first_name |-> NULL, last_name |-> NULL] }

extractUserInfo(from) ==
    [username |-> from.username, id |-> from.id,
     firstName |-> from.first_name, lastName |-> from.last_name]

\* the users that press buttons: one with a name and a handle, one with a
\* handle only
Pressers == { u \in Users : Truthy(u.username) }

\* the actors of the direct calls of the repository
UserInfos == { extractUserInfo(u) : u \in Pressers }

\* [firstName, lastName].filter(Boolean).join(' ')
fullName(userInfo) ==
    (IF Truthy(userInfo.firstName) THEN Val(userInfo.firstName) ELSE <<>>)
        \o (IF Truthy(userInfo.lastName) THEN Val(userInfo.lastName) ELSE <<>>)

(* ------------------------- the alerts table ---------------------------- *)
\* canonical alert inputs handed to createAlert
AlertInputs == {
    [title |-> <<"DB", "down">>, source |-> <<"svc">>, severity |-> "critical",
     message |-> <<"timeout">>, timestamp |-> Some(1), metadata |-> NULL] }

\* JSON.stringify of a metadata object, given as a function from the paths
\* of its members to their values: the text has the members that are not
\* undefined
JSONstringify(obj) ==
    { <<k, Val(obj[k])>> : k \in { k \in DOMAIN obj : obj[k] # NULL } }

\* JSON.parse of such a text
JSONparse_Empty(text) == [k \in {} |-> NULL]
JSONparse(text) ==
    [k \in { m[1] : m \in text } |-> Some((CHOOSE m \in text : m[1] = k)[2])]

\* INSERT INTO alerts (title, source, severity, message, timestamp, metadata)
\* with the column defaults of CREATE TABLE; created_at, which only the
\* report queries read, is left out
NewRow(alertData, t) ==
    [title |-> alertData.title,
     source |-> alertData.source,
     severity |-> alertData.severity,
     message |-> alertData.message,
     timestamp |-> IF alertData.timestamp = NULL THEN t ELSE Val(alertData.timestamp),
     metadata |-> IF alertData.metadata # NULL
                  THEN Some(JSONstringify(Val(alertData.metadata))) ELSE NULL,
     telegram_message_id |-> NULL,
     chat_id |-> NULL,
     acknowledged |-> FALSE,
     acknowledged_by |-> NULL,
     acknowledged_by_id |-> NULL,
     acknowledged_by_name |-> NULL,
     acknowledged_at |-> NULL,
     resolved |-> FALSE,
     resolved_by |-> NULL,
     resolved_by_id |-> NULL,
     resolved_by_name |-> NULL,
     resolved_at |-> NULL]

\* Database.createAlert: the table after the INSERT; lastID is its length
createAlert(tbl, alertData, t) == Append(tbl, NewRow(alertData, t))

\* WHERE id = ? AND acknowledged = FALSE
AckWhere_NoGuard(tbl, alertId) == { i \in DOMAIN tbl : i = alertId }
AckWhere(tbl, alertId) ==
    { i \in DOMAIN tbl : i = alertId /\ tbl[i].acknowledged = FALSE }

\* SET acknowledged = TRUE, acknowledged_by = ?, ... of acknowledgeAlert
AckSet(row, userInfo, t) ==
    [row EXCEPT !.acknowledged = TRUE,
                !.acknowledged_by = userInfo.username,
                !.acknowledged_by_id = Some(userInfo.id),
                !.acknowledged_by_name = Some(fullName(userInfo)),
                !.acknowledged_at = Some(t)]

\* Database.acknowledgeAlert: the table after the UPDATE and this.changes > 0
acknowledgeAlert_AnyState(tbl, alertId, userInfo, t) ==
    [table |-> [i \in DOMAIN tbl |->
                    IF i = alertId THEN AckSet(tbl[i], userInfo, t) ELSE tbl[i]],
     result |-> alertId \in DOMAIN tbl]
acknowledgeAlert(tbl, alertId, userInfo, t) ==
    [table |-> [i \in DOMAIN tbl |->
                    IF i \in AckWhere(tbl, alertId)
                    THEN AckSet(tbl[i], userInfo, t) ELSE tbl[i]],
     result |-> Cardinality(AckWhere(tbl, alertId)) > 0]

\* WHERE id = ? AND acknowledged = TRUE AND resolved = FALSE
ResolveWhere_NoAck(tbl, alertId) ==
    { i \in DOMAIN tbl : i = alertId /\ tbl[i].resolved = FALSE }
ResolveWhere_NoResolved(tbl, alertId) ==
    { i \in DOMAIN tbl : i = alertId /\ tbl[i].acknowledged = TRUE }
ResolveWhere(tbl, alertId) ==
    { i \in DOMAIN tbl : i = alertId /\ tbl[i].acknowledged = TRUE
                                     /\ tbl[i].resolved = FALSE }

\* SET resolved = TRUE, resolved_by = ?, ... of resolveAlert
ResolveSet(row, userInfo, t) ==
    [row EXCEPT !.resolved = TRUE,
                !.resolved_by = userInfo.username,
                !.resolved_by_id = Some(userInfo.id),
                !.resolved_by_name = Some(fullName(userInfo)),
                !.resolved_at = Some(t)]

\* Database.resolveAlert: the table after the UPDATE and this.changes > 0
resolveAlert_AnyState(tbl, alertId, userInfo, t) ==
    [table |-> [i \in DOMAIN tbl |->
                    IF i = alertId THEN ResolveSet(tbl[i], userInfo, t) ELSE tbl[i]],
     result |-> alertId \in DOMAIN tbl]
resolveAlert(tbl, alertId, userInfo, t) ==
    [table |-> [i \in DOMAIN tbl |->
                    IF i \in ResolveWhere(tbl, alertId)
                    THEN ResolveSet(tbl[i], userInfo, t) ELSE tbl[i]],
     result |-> Cardinality(ResolveWhere(tbl, alertId)) > 0]

\* Database.getAlertById: the row, or null
getAlertById(tbl, alertId) ==
    IF alertId \in DOMAIN tbl
    THEN Some([tbl[alertId] EXCEPT !.metadata =
                    IF @ # NULL THEN Some(JSONparse(Val(@))) ELSE NULL])
    ELSE NULL

\* the ids a caller may name: a row, or a row that does not exist yet
CallIds == 1..MaxAlerts
\* the ids a button may name: the alerts posted, and one without a row
ButtonIds == 1..(MaxPosts + 1)

(* ------------------- direct calls of the repository -------------------- *)
Calls == 1..NumCalls

FreeCall ==
    [state |-> "free", op |-> "none", alertId |-> 0, userInfo |-> NULL,
     result |-> FALSE, concurrent |-> {}, unackAtIssue |-> FALSE]

Pending(c) == calls[c].state = "pending"

\* the record of the calls that returned true
WinCap == 2
NoWins == [acknowledged |-> 0, resolved |-> 0]
Won(w, field, alertId, result) ==
    IF result /\ alertId \in DOMAIN w
    THEN [w EXCEPT ![alertId][field] = IF @ < WinCap THEN @ + 1 ELSE @]
    ELSE w
Returned(c) == calls[c].state = "returned"


\* a caller invokes db.acknowledgeAlert / db.resolveAlert; the call waits in
\* waitForInit and in sqlite's statement queue until its UPDATE runs
IssueCall(c, op, alertId, userInfo) ==
    /\ calls[c].state = "free"
    /\ \A d \in Calls : d < c => calls[d].state # "free"
    /\ calls' = [calls EXCEPT ![c] =
            [state |-> "pending", op |-> op, alertId |-> alertId,
             userInfo |-> Some(userInfo), result |-> FALSE,
             concurrent |-> { d \in Calls : Pending(d) },
             unackAtIssue |-> /\ alertId \in DOMAIN alerts
                              /\ alerts[alertId].acknowledged = FALSE]]
    /\ UNCHANGED <<alerts, now, chat, delivery, queries, answered, wins, response, mapped,
                 config, request, report, command, db>>

\* the UPDATE of a pending acknowledgeAlert runs and the promise resolves
ExecAcknowledge(c) ==
    /\ Pending(c)
    /\ calls[c].op = "acknowledge"
    /\ LET r == acknowledgeAlert(alerts, calls[c].alertId, Val(calls[c].userInfo), now)
       IN /\ alerts' = r.table
          /\ calls' = [calls EXCEPT ![c].state = "returned", ![c].result = r.result]
          /\ wins' = Won(wins, "acknowledged", calls[c].alertId, r.result)
    /\ UNCHANGED <<now, chat, delivery, queries, answered, response, mapped,
                 config, request, report, command, db>>

\* the UPDATE of a pending resolveAlert runs and the promise resolves
ExecResolve(c) ==
    /\ Pending(c)
    /\ calls[c].op = "resolve"
    /\ LET r == resolveAlert(alerts, calls[c].alertId, Val(calls[c].userInfo), now)
       IN /\ alerts' = r.table
          /\ calls' = [calls EXCEPT ![c].state = "returned", ![c].result = r.result]
          /\ wins' = Won(wins, "resolved", calls[c].alertId, r.result)
    /\ UNCHANGED <<now, chat, delivery, queries, answered, response, mapped,
                 config, request, report, command, db>>

\* the configured chat
ChatId == "CHAT_ID"

\* Database.updateTelegramInfo: UPDATE alerts SET telegram_message_id = ?,
\* chat_id = ? WHERE id = ?
updateTelegramInfo_AllRows(tbl, alertId, telegramMessageId, chatId) ==
    [i \in DOMAIN tbl |->
        [tbl[i] EXCEPT !.telegram_message_id = Some(telegramMessageId),
                       !.chat_id = Some(chatId)]]
updateTelegramInfo(tbl, alertId, telegramMessageId, chatId) ==
    [i \in DOMAIN tbl |->
        IF i = alertId
        THEN [tbl[i] EXCEPT !.telegram_message_id = Some(telegramMessageId),
                            !.chat_id = Some(chatId)]
        ELSE tbl[i]]

\* the UPDATE of a pending updateTelegramInfo runs and the promise resolves
\* with this.changes; the message the caller has sent has the caller's
\* number as message_id
ExecUpdateTelegramInfo(c) ==
    /\ Pending(c)
    /\ calls[c].op = "updateTelegramInfo"
    /\ alerts' = updateTelegramInfo(alerts, calls[c].alertId, c, ChatId)
    /\ calls' = [calls EXCEPT ![c].state = "returned",
                              ![c].result = calls[c].alertId \in DOMAIN alerts]
    /\ UNCHANGED <<now, chat, delivery, queries, answered, wins, response, mapped,
                 config, request, report, command, db>>

\* a caller's db.createAlert(alertData) commits a new row
CreateAlert(alertData) ==
    /\ Len(alerts) < MaxAlerts
    /\ alerts' = createAlert(alerts, alertData, now)
    /\ wins' = Append(wins, NoWins)
    /\ UNCHANGED <<now, calls, chat, delivery, queries, answered, response, mapped,
                 config, request, report, command, db>>

\* time passes
Tick ==
    /\ now < MaxTime
    /\ now' = now + 1
    /\ UNCHANGED <<alerts, calls, chat, delivery, queries, answered, wins, response, mapped,
                 config, request, report, command, db>>


(* --------------------- callback tokens and keyboards ------------------- *)
DigitChars == <<"0", "1", "2", "3", "4", "5", "6", "7", "8", "9">>

\* `${alertId}`: the decimal digits of a non-negative integer
RECURSIVE Digits(_)
Digits(n) ==
    IF n < 10 THEN <<DigitChars[n + 1]>>
    ELSE Digits(n \div 10) \o <<DigitChars[(n % 10) + 1]>>

IsDigit(ch) == \E d \in 1..10 : DigitChars[d] = ch
DigitValue(ch) == (CHOOSE d \in 1..10 : DigitChars[d] = ch) - 1

\* parseInt of a non-empty string of digits
RECURSIVE ParseInt(_)
ParseInt(s) ==
    IF Len(s) = 1 THEN DigitValue(s[1])
    ELSE 10 * ParseInt(SubSeq(s, 1, Len(s) - 1)) + DigitValue(s[Len(s)])

\* s matches /^prefix(\d+)$/
MatchesPrefixDigits(s, prefix) ==
    /\ Len(s) > Len(prefix)
    /\ SubSeq(s, 1, Len(prefix)) = prefix
    /\ \A k \in (Len(prefix) + 1)..Len(s) : IsDigit(s[k])

AckPrefix == <<"a", "c", "k", "_">>
ResolvePrefix == <<"r", "e", "s", "o", "l", "v", "e", "_">>

\* utils.createAcknowledgeKeyboard: one row with one button
createAcknowledgeKeyboard(alertId) ==
    <<[text |-> "Acknowledge", callback_data |-> AckPrefix \o Digits(alertId)]>>

\* utils.createResolveKeyboard: one row with one button
createResolveKeyboard_Acknowledge(alertId) == createAcknowledgeKeyboard(alertId)
createResolveKeyboard(alertId) ==
    <<[text |-> "Resolve", callback_data |-> ResolvePrefix \o Digits(alertId)]>>

\* utils.extractAlertIdFromCallback: {id, action} or null
extractAlertIdFromCallback_AnyVerb(callbackData) ==
    IF MatchesPrefixDigits(callbackData, AckPrefix)
       \/ MatchesPrefixDigits(callbackData, ResolvePrefix)
    THEN Some([id |-> ParseInt(SubSeq(callbackData,
                                      IF callbackData[1] = "a" THEN Len(AckPrefix) + 1
                                      ELSE Len(ResolvePrefix) + 1,
                                      Len(callbackData))),
               action |-> "acknowledge"])
    ELSE NULL
extractAlertIdFromCallback(callbackData) ==
    IF MatchesPrefixDigits(callbackData, AckPrefix)
    THEN Some([id |-> ParseInt(SubSeq(callbackData, Len(AckPrefix) + 1, Len(callbackData))),
               action |-> "acknowledge"])
    ELSE IF MatchesPrefixDigits(callbackData, ResolvePrefix)
    THEN Some([id |-> ParseInt(SubSeq(callbackData, Len(ResolvePrefix) + 1, Len(callbackData))),
               action |-> "resolve"])
    ELSE NULL

\* the callback data that reach the bot: the buttons it attaches to its
\* notifications, for the rows that can exist and for one id without a row,
\* and data of buttons it never made
CallbackData ==
    { createAcknowledgeKeyboard(i)[1].callback_data : i \in ButtonIds }
        \cup { createResolveKeyboard(i)[1].callback_data : i \in ButtonIds }
        \cup { <<"m", "u", "t", "e", "_", "1">> }


(* ------------------------- notification texts -------------------------- *)
\* PanitenBot.getFullName: the joined name parts, or null
getFullName(userInfo) ==
    IF fullName(userInfo) # <<>> THEN Some(fullName(userInfo)) ELSE NULL

\* utils.formatAlertMessage: the original content of the notification
formatAlertMessage(alert) ==
    [severity |-> alert.severity, title |-> alert.title,
     source |-> alert.source, message |-> alert.message]

\* utils.extractUserDisplayName(userInfo, 'acknowledged')
extractUserDisplayName(userInfo) ==
    IF Truthy(userInfo.acknowledged_by_name) THEN Val(userInfo.acknowledged_by_name)
    ELSE IF Truthy(userInfo.firstName) \/ Truthy(userInfo.lastName) THEN fullName(userInfo)
    ELSE IF Truthy(userInfo.acknowledged_by) THEN <<"@">> \o Val(userInfo.acknowledged_by)
    ELSE IF Truthy(userInfo.username) THEN <<"@">> \o Val(userInfo.username)
    ELSE <<"User", ToString(userInfo.id)>>

\* utils.extractAckUserDisplayName
extractAckUserDisplayName(ackUserInfo) ==
    IF Truthy(ackUserInfo.acknowledged_by_name) THEN Val(ackUserInfo.acknowledged_by_name)
    ELSE IF Truthy(ackUserInfo.acknowledged_by) THEN <<"@">> \o Val(ackUserInfo.acknowledged_by)
    ELSE <<"Unknown", "User">>

\* utils.extractResolveUserDisplayName, on the userInfo of the resolver
extractResolveUserDisplayName(resolveUserInfo) ==
    IF Truthy(resolveUserInfo.firstName) \/ Truthy(resolveUserInfo.lastName)
    THEN fullName(resolveUserInfo)
    ELSE IF Truthy(resolveUserInfo.username) THEN <<"@">> \o Val(resolveUserInfo.username)
    ELSE <<"User", ToString(resolveUserInfo.id)>>

\* utils.formatAcknowledgedMessage (the clock time of the line is left out)
formatAcknowledgedMessage(alert, userInfo) ==
    [original |-> formatAlertMessage(alert),
     acknowledged_by |-> Some(extractUserDisplayName(userInfo)),
     resolved_by |-> NULL]

\* utils.formatResolvedMessage (the clock times of the lines are left out)
formatResolvedMessage_Resolver(alert, ackUserInfo, resolveUserInfo) ==
    [original |-> formatAlertMessage(alert),
     acknowledged_by |-> Some(extractResolveUserDisplayName(resolveUserInfo)),
     resolved_by |-> Some(extractResolveUserDisplayName(resolveUserInfo))]
formatResolvedMessage(alert, ackUserInfo, resolveUserInfo) ==
    [original |-> formatAlertMessage(alert),
     acknowledged_by |-> Some(extractAckUserDisplayName(ackUserInfo)),
     resolved_by |-> Some(extractResolveUserDisplayName(resolveUserInfo))]

\* a notification of an earlier database that is still in the chat: its
\* buttons can still be pressed
OldMessage ==
    [text |-> [original |-> [severity |-> "info", title |-> <<"old">>,
                             source |-> <<"old">>, message |-> <<"old">>],
               acknowledged_by |-> NULL, resolved_by |-> NULL],
     reply_markup |-> <<>>]

(* ------------- POST /api/alert and PanitenBot.sendAlert ---------------- *)
\* the handler of POST /api/alert on a canonical payload: db.createAlert
\* commits the row, bot.sendAlert(alert) is started and 201 is returned
PostAlert(alertData) ==
    /\ answered = NULL
    /\ Len(alerts) < MaxPosts
    /\ alerts' = createAlert(alerts, alertData, now)
    /\ delivery' = Append(delivery, [state |-> "none", message_id |-> 0])
    /\ wins' = Append(wins, NoWins)
    /\ UNCHANGED <<now, calls, chat, queries, answered, response, mapped,
                 config, request, report, command, db>>

\* bot.sendMessage(chatId, formatAlertMessage(alert), acknowledge keyboard)
SendMessage(i) ==
    /\ answered = NULL
    /\ i \in DOMAIN alerts
    /\ delivery[i].state = "none"
    /\ chat' = Append(chat, [text |-> [original |-> formatAlertMessage(alerts[i]),
                                       acknowledged_by |-> NULL,
                                       resolved_by |-> NULL],
                            reply_markup |-> createAcknowledgeKeyboard(i)])
    /\ delivery' = [delivery EXCEPT ![i] =
                        [state |-> "sent", message_id |-> Len(chat) + 1]]
    /\ UNCHANGED <<alerts, now, calls, queries, answered, wins, response, mapped,
                 config, request, report, command, db>>

(* ------------- PanitenBot: the callback_query handler ------------------ *)
\* bot.answerCallbackQuery(query.id, {text, show_alert}); by is the name
\* interpolated into the text, <<>> when the text has none
Answer(text, by, show_alert) == [text |-> text, by |-> by, show_alert |-> show_alert]

\* alert.acknowledged_by_name || alert.acknowledged_by || 'Unknown user'
AcknowledgedBy_HandleFirst(alert) ==
    Val(Or(Or(alert.acknowledged_by, alert.acknowledged_by_name),
           Some(<<"Unknown", "user">>)))
AcknowledgedBy(alert) ==
    Val(Or(Or(alert.acknowledged_by_name, alert.acknowledged_by),
           Some(<<"Unknown", "user">>)))

\* alert.resolved_by_name || alert.resolved_by || 'Unknown user'
ResolvedBy(alert) ==
    Val(Or(Or(alert.resolved_by_name, alert.resolved_by),
           Some(<<"Unknown", "user">>)))

AlreadyAcknowledged(alert) ==
    Answer("Already acknowledged by", AcknowledgedBy(alert), FALSE)
AlreadyResolved(alert) ==
    Answer("Already resolved by", ResolvedBy(alert), FALSE)
MustAcknowledgeFirst ==
    Answer("Alert must be acknowledged before resolving", <<>>, TRUE)
NotFound == Answer("Alert not found in database", <<>>, TRUE)
InvalidCallback == Answer("Invalid callback data", <<>>, TRUE)
ErrorProcessing == Answer("Error processing request", <<>>, TRUE)

\* the pre-check of handleAcknowledge on the fetched alert: answer and
\* return, or go on to db.acknowledgeAlert
handleAcknowledgeEntry(alert) ==
    IF alert.acknowledged
    THEN [pc |-> "done", answer |-> Some(AlreadyAcknowledged(alert))]
    ELSE [pc |-> "acknowledgeAlert", answer |-> NULL]

\* the two pre-checks of handleResolve on the fetched alert
handleResolveEntry_NoAckCheck(alert) ==
    IF alert.resolved
    THEN [pc |-> "done", answer |-> Some(AlreadyResolved(alert))]
    ELSE [pc |-> "resolveAlert", answer |-> NULL]
handleResolveEntry(alert) ==
    IF ~alert.acknowledged
    THEN [pc |-> "done", answer |-> Some(MustAcknowledgeFirst)]
    ELSE IF alert.resolved
    THEN [pc |-> "done", answer |-> Some(AlreadyResolved(alert))]
    ELSE [pc |-> "resolveAlert", answer |-> NULL]

\* the handler after `await this.db.getAlertById(alertId)`: alert is the
\* fetched row or null
AfterGetAlert_NoNullCheck(alert, action) ==
    [pc |-> IF action = "acknowledge" THEN "acknowledgeAlert" ELSE "resolveAlert",
     answer |-> NULL]
AfterGetAlert(alert, action) ==
    IF alert = NULL THEN [pc |-> "done", answer |-> Some(NotFound)]
    ELSE IF action = "acknowledge" THEN handleAcknowledgeEntry(Val(alert))
    ELSE handleResolveEntry(Val(alert))

\* handleAcknowledge after `await this.db.acknowledgeAlert(...)`
AfterAcknowledge(success) ==
    IF success THEN [pc |-> "editAcknowledged", answer |-> NULL]
    ELSE [pc |-> "done",
          answer |-> Some(Answer("Failed to acknowledge alert", <<>>, TRUE))]

\* handleResolve after `await this.db.resolveAlert(...)`
AfterResolve(success) ==
    IF success THEN [pc |-> "editResolved", answer |-> NULL]
    ELSE [pc |-> "done",
          answer |-> Some(Answer("Failed to resolve alert", <<>>, TRUE))]

\* the suspended handlers
Handlers == BagToSet(queries)
\* a handler is suspended at its first repository call
Started(query) == queries (+) SetToBag({query})
\* a handler has returned: none of its locals is kept
Finished(query) == queries (-) SetToBag({query})
\* a handler goes on to its next await, or answers the query and returns
Continue(query, next) ==
    IF next.pc = "done" THEN Finished(query)
    ELSE Finished(query) (+) SetToBag({[query EXCEPT !.pc = next.pc]})
Reply(alertId, action, answer) ==
    Some([alertId |-> alertId, action |-> action, answer |-> answer])
Answered(query, next) ==
    IF next.pc = "done"
    THEN Reply(query.alertId, query.action, Val(next.answer))
    ELSE NULL

\* a button is pressed only on a message that is in the chat: a press that
\* names a posted alert comes once its notification has been sent (all the
\* other presses come from the old message)
Pressable(callbackResult) ==
    callbackResult # NULL /\ Val(callbackResult).id \in DOMAIN alerts
        => delivery[Val(callbackResult).id].state = "sent"

\* query.message.message_id
MessageOf(callbackResult) ==
    IF callbackResult # NULL /\ Val(callbackResult).id \in DOMAIN alerts
    THEN delivery[Val(callbackResult).id].message_id
    ELSE 1

\* a callback_query is handled up to its second await: the data is parsed
\* (invalid data is answered at once), the SELECT of db.getAlertById runs,
\* and the handler answers not found or runs the pre-checks of
\* handleAcknowledge / handleResolve
CallbackQuery_Authorized(data, from) ==
    /\ answered = NULL
    /\ BagCardinality(queries) < NumQueries
    /\ LET callbackResult == extractAlertIdFromCallback(data)
       IN /\ Pressable(callbackResult)
          /\ IF callbackResult = NULL
                \/ \E k \in DOMAIN config.AUTHORIZED_USERS :
                        config.AUTHORIZED_USERS[k] # Digits(from.id)
             THEN /\ answered' = Reply(0, "none", Answer("Access denied.", <<>>, TRUE))
                  /\ UNCHANGED queries
             ELSE LET alert == getAlertById(alerts, Val(callbackResult).id)
                      next == AfterGetAlert(alert, Val(callbackResult).action)
                      query == [pc |-> next.pc,
                                from |-> from,
                                message_id |-> MessageOf(callbackResult),
                                alertId |-> Val(callbackResult).id,
                                action |-> Val(callbackResult).action,
                                alert |-> alert]
                  IN /\ queries' = IF next.pc = "done" THEN queries
                                   ELSE Started(query)
                     /\ answered' = Answered(query, next)
    /\ UNCHANGED <<alerts, now, calls, chat, delivery, wins, response, mapped,
                 config, request, report, command, db>>
CallbackQuery(data, from) ==
    /\ answered = NULL
    /\ BagCardinality(queries) < NumQueries
    /\ LET callbackResult == extractAlertIdFromCallback(data)
       IN /\ Pressable(callbackResult)
          /\ IF callbackResult = NULL
             THEN /\ answered' = Reply(0, "none", InvalidCallback)
                  /\ UNCHANGED queries
             ELSE LET alert == getAlertById(alerts, Val(callbackResult).id)
                      next == AfterGetAlert(alert, Val(callbackResult).action)
                      query == [pc |-> next.pc,
                                from |-> from,
                                message_id |-> MessageOf(callbackResult),
                                alertId |-> Val(callbackResult).id,
                                action |-> Val(callbackResult).action,
                                alert |-> alert]
                  IN /\ queries' = IF next.pc = "done" THEN queries
                                   ELSE Started(query)
                     /\ answered' = Answered(query, next)
    /\ UNCHANGED <<alerts, now, calls, chat, delivery, wins, response, mapped,
                 config, request, report, command, db>>

\* the UPDATE of db.acknowledgeAlert runs; handleAcknowledge resumes
AcknowledgeDb(query) ==
    /\ answered = NULL
    /\ query.pc = "acknowledgeAlert"
    /\ LET userInfo == extractUserInfo(query.from)
           r == acknowledgeAlert(alerts, query.alertId, userInfo, now)
           next == AfterAcknowledge(r.result)
       IN /\ alerts' = r.table
          /\ wins' = Won(wins, "acknowledged", query.alertId, r.result)
          /\ queries' = Continue(query, next)
          /\ answered' = Answered(query, next)
    /\ UNCHANGED <<now, calls, chat, delivery, response, mapped, config, request, report, command, db>>

\* the UPDATE of db.resolveAlert runs; handleResolve resumes
ResolveDb(query) ==
    /\ answered = NULL
    /\ query.pc = "resolveAlert"
    /\ LET userInfo == extractUserInfo(query.from)
           r == resolveAlert(alerts, query.alertId, userInfo, now)
           next == AfterResolve(r.result)
       IN /\ alerts' = r.table
          /\ wins' = Won(wins, "resolved", query.alertId, r.result)
          /\ queries' = Continue(query, next)
          /\ answered' = Answered(query, next)
    /\ UNCHANGED <<now, calls, chat, delivery, response, mapped, config, request, report, command, db>>

\* bot.editMessageText(updatedMessage, {reply_markup: resolveKeyboard})
\* succeeds; the query is answered
EditAcknowledged(query) ==
    /\ answered = NULL
    /\ query.pc = "editAcknowledged"
    /\ LET userInfo == extractUserInfo(query.from)
           completeUserInfo ==
               [username |-> userInfo.username, id |-> userInfo.id,
                firstName |-> userInfo.firstName, lastName |-> userInfo.lastName,
                acknowledged_by |-> userInfo.username,
                acknowledged_by_id |-> userInfo.id,
                acknowledged_by_name |-> getFullName(userInfo)]
       IN chat' = [chat EXCEPT ![query.message_id] =
            [text |-> formatAcknowledgedMessage(Val(query.alert), completeUserInfo),
             reply_markup |-> createResolveKeyboard(query.alertId)]]
    /\ queries' = Finished(query)
    /\ answered' = Reply(query.alertId, query.action,
                         Answer("Alert acknowledged successfully", <<>>, FALSE))
    /\ UNCHANGED <<alerts, now, calls, delivery, wins, response, mapped,
                 config, request, report, command, db>>

\* bot.editMessageText(resolvedMessage, {}) succeeds: no reply_markup, so
\* the message loses its keyboard; the query is answered
EditResolved(query) ==
    /\ answered = NULL
    /\ query.pc = "editResolved"
    /\ LET alert == Val(query.alert)
           ackUserInfo == [acknowledged_by |-> alert.acknowledged_by,
                           acknowledged_by_name |-> alert.acknowledged_by_name,
                           acknowledged_at |-> alert.acknowledged_at]
       IN chat' = [chat EXCEPT ![query.message_id] =
            [text |-> formatResolvedMessage(alert, ackUserInfo,
                                            extractUserInfo(query.from)),
             reply_markup |-> <<>>]]
    /\ queries' = Finished(query)
    /\ answered' = Reply(query.alertId, query.action,
                         Answer("Alert resolved successfully", <<>>, FALSE))
    /\ UNCHANGED <<alerts, now, calls, delivery, wins, response, mapped,
                 config, request, report, command, db>>

\* bot.editMessageText rejects: the catch of the handler answers with an error
EditFails(query) ==
    /\ answered = NULL
    /\ query.pc \in {"editAcknowledged", "editResolved"}
    /\ queries' = Finished(query)
    /\ answered' = Reply(query.alertId, query.action, ErrorProcessing)
    /\ UNCHANGED <<alerts, now, calls, chat, delivery, wins, response, mapped,
                 config, request, report, command, db>>

\* the bot.answerCallbackQuery being made reaches Telegram
AnswerCallbackQuery ==
    /\ answered # NULL
    /\ answered' = NULL
    /\ UNCHANGED <<alerts, now, calls, chat, delivery, queries, wins, response, mapped,
                 config, request, report, command, db>>

(* ------------------- webhook bodies and mapSeverity -------------------- *)
\* A string of a webhook body is modelled by its text in lower case without
\* the whitespace around it, whether it has upper-case letters, the number
\* of whitespace characters around it, and its length
Str(text, length) == [text |-> text, upper |-> FALSE, pad |-> 0, length |-> length]
toLowerCase_Same(s) == s
toLowerCase(s) == [s EXCEPT !.upper = FALSE]
trim(s) == [s EXCEPT !.pad = 0, !.length = @ - s.pad]
\* truthiness of a nullable string: undefined, null and '' are falsy
TruthyString(o) == o # NULL /\ Val(o).length > 0
\* a || b on nullable strings
OrString(a, b) == IF TruthyString(a) THEN a ELSE b

\* the three severities
Severities == { Str("critical", 8), Str("warning", 7), Str("info", 4) }

\* mapSeverity after `(severity || status || '').toString().toLowerCase()`:
\* the includes() test and the switch statements
SeverityTable_Verbatim(severityStr, source) == severityStr
SeverityTable(severityStr, source) ==
    IF severityStr \in Severities THEN severityStr
    ELSE IF source \in {"grafana", "prometheus"}
    THEN CASE severityStr = Str("firing", 6) -> Str("warning", 7)
           [] severityStr = Str("resolved", 8) -> Str("info", 4)
           [] severityStr = Str("pending", 7) -> Str("info", 4)
           [] OTHER -> Str("warning", 7)
    ELSE IF source = "zabbix"
    THEN CASE severityStr \in {Str("5", 1), Str("disaster", 8)} -> Str("critical", 8)
           [] severityStr \in {Str("4", 1), Str("high", 4)} -> Str("critical", 8)
           [] severityStr \in {Str("3", 1), Str("average", 7)} -> Str("warning", 7)
           [] severityStr \in {Str("2", 1), Str("warning", 7)} -> Str("warning", 7)
           [] severityStr \in {Str("1", 1), Str("information", 11)} -> Str("info", 4)
           [] severityStr \in {Str("0", 1), Str("not_classified", 14)} -> Str("info", 4)
           [] OTHER -> Str("warning", 7)
    ELSE CASE severityStr \in {Str("error", 5), Str("fatal", 5), Str("emergency", 9),
                               Str("alert", 5), Str("high", 4), Str("urgent", 6)}
                -> Str("critical", 8)
           [] severityStr \in {Str("warn", 4), Str("warning", 7), Str("medium", 6),
                               Str("moderate", 8)}
                -> Str("warning", 7)
           [] severityStr \in {Str("info", 4), Str("information", 11), Str("notice", 6),
                               Str("low", 3), Str("debug", 5), Str("trace", 5)}
                -> Str("info", 4)
           [] OTHER -> Str("info", 4)

\* app.js mapSeverity(severity, status, source) on nullable strings
mapSeverity_StatusFirst(severity, status, source) ==
    IF ~TruthyString(severity) /\ ~TruthyString(status) THEN Str("info", 4)
    ELSE SeverityTable(toLowerCase(Val(OrString(status, severity))), source)
mapSeverity(severity, status, source) ==
    IF ~TruthyString(severity) /\ ~TruthyString(status) THEN Str("info", 4)
    ELSE SeverityTable(toLowerCase(Val(OrString(severity, status))), source)

\* the source kinds the transformations pass to mapSeverity
SourceKinds == {"grafana", "prometheus", "zabbix", "generic"}

\* the tokens of the tables of mapSeverity and two that are in none of them
PlainTokens ==
    { Str(t[1], t[2]) : t \in {
        <<"critical", 8>>, <<"warning", 7>>, <<"info", 4>>,
        <<"firing", 6>>, <<"resolved", 8>>, <<"pending", 7>>,
        <<"5", 1>>, <<"4", 1>>, <<"3", 1>>, <<"2", 1>>, <<"1", 1>>, <<"0", 1>>,
        <<"disaster", 8>>, <<"high", 4>>, <<"average", 7>>,
        <<"information", 11>>, <<"not_classified", 14>>,
        <<"error", 5>>, <<"fatal", 5>>, <<"emergency", 9>>, <<"alert", 5>>,
        <<"urgent", 6>>, <<"warn", 4>>, <<"medium", 6>>, <<"moderate", 8>>,
        <<"notice", 6>>, <<"low", 3>>, <<"debug", 5>>, <<"trace", 5>>,
        <<"ok", 2>>, <<"7", 1>> } }

\* the same token written with upper-case letters, or with a blank on each side
UpperCased(s) == [s EXCEPT !.upper = TRUE]
Padded(s) == [s EXCEPT !.pad = 2, !.length = @ + 2]

\* the severity and status arguments: absent, a plain token, or a token in
\* another letter case or with whitespace around it
SeverityTokens ==
    {NULL} \cup { Some(s) : s \in PlainTokens }
           \cup { Some(UpperCased(s)) : s \in Severities \cup {Str("error", 5)} }
           \cup { Some(Padded(s)) : s \in {Str("critical", 8), Str("5", 1),
                                            Str("error", 5)} }

\* a transformation calls mapSeverity(severity, status, source); the function
\* reads nothing but its arguments, so one call per behaviour is examined
MapSeverity(severity, status, source) ==
    /\ mapped = NULL
    /\ mapped' = Some([severity |-> severity, status |-> status, source |-> source,
                       result |-> mapSeverity(severity, status, source)])
    /\ UNCHANGED <<alerts, now, calls, chat, delivery, queries, answered, wins, response,
                 config, request, report, command, db>>

(* ------------------ POST /api/alert: format detection ------------------ *)
MaxTitleLength == 200
MaxMessageLength == 2000

\* o?.f on a nullable object
Get(o, f) == IF o = NULL THEN NULL ELSE Val(o)[f]

\* a string literal with capital letters
Capitalized(text, length) == UpperCased(Str(text, length))

\* validateAlertPayload(payload).valid; the fields of the bodies are strings
validateAlertPayload_AnySeverity(payload) ==
    /\ \A field \in {"title", "source", "severity", "message"} :
            TruthyString(payload[field])
    /\ Val(payload.title).length <= MaxTitleLength
    /\ Val(payload.message).length <= MaxMessageLength
validateAlertPayload(payload) ==
    /\ \A field \in {"title", "source", "severity", "message"} :
            TruthyString(payload[field])
    /\ Val(payload.severity) \in Severities
    /\ Val(payload.title).length <= MaxTitleLength
    /\ Val(payload.message).length <= MaxMessageLength

\* The metadata of a transformed alert is a function from the paths of its
\* members to their values, undefined when NULL; the Zabbix metadata has its
\* status, labels and annotations, the others their status only.

\* what detectAndTransformWebhook does: it returns null (alertData is NULL),
\* returns a transformed alert, or throws; format is the branch it took
Normalized(format, alertData) ==
    [format |-> format, throws |-> FALSE, alertData |-> alertData]
Thrown(format) == [format |-> format, throws |-> TRUE, alertData |-> NULL]

\* payload.alerts[0]: undefined for an empty array, null for a null element
FirstAlert(payload) ==
    IF Val(payload.alerts) = <<>> THEN NULL ELSE Val(payload.alerts)[1]

\* `Alert: ${firstAlert.labels?.alertname}`
AlertTemplate(alertname) ==
    IF alertname = NULL THEN Capitalized("alert: undefined", 16)
    ELSE [text |-> "alert: " \o Val(alertname).text, upper |-> TRUE,
          pad |-> 0, length |-> 7 + Val(alertname).length]

\* transformGrafanaWebhook(payload) at time t: reading firstAlert.labels of
\* an undefined or null first element throws a TypeError
transformGrafanaWebhook(payload, t) ==
    LET firstAlert == FirstAlert(payload)
    IN IF firstAlert = NULL THEN Thrown("grafana")
       ELSE LET labels == Val(firstAlert).labels
                annotations == Val(firstAlert).annotations
            IN Normalized("grafana", Some(
                [title |-> Val(OrString(Get(annotations, "summary"),
                               OrString(Get(payload.commonAnnotations, "summary"),
                               OrString(Get(labels, "alertname"),
                                        Some(Capitalized("grafana alert", 13)))))),
                 source |-> Val(OrString(Get(labels, "instance"),
                                OrString(Get(labels, "job"),
                                OrString(payload.receiver,
                                         Some(Capitalized("grafana", 7)))))),
                 severity |-> mapSeverity(Get(labels, "severity"), payload.status,
                                          "grafana"),
                 message |-> Val(OrString(Get(annotations, "description"),
                                 OrString(Get(annotations, "summary"),
                                          Some(AlertTemplate(Get(labels, "alertname")))))),
                 timestamp |-> IF Val(firstAlert).startsAt # NULL
                               THEN Val(firstAlert).startsAt ELSE Some(t),
                 metadata |-> Some([status |-> OrString(payload.status,
                                                        Some(Str("firing", 6)))])]))

\* transformPrometheusWebhook(payload) at time t
transformPrometheusWebhook(payload, t) ==
    LET firstAlert == FirstAlert(payload)
    IN IF firstAlert = NULL THEN Thrown("prometheus")
       ELSE LET labels == Val(firstAlert).labels
                annotations == Val(firstAlert).annotations
            IN Normalized("prometheus", Some(
                [title |-> Val(OrString(Get(annotations, "summary"),
                               OrString(Get(labels, "alertname"),
                                        Some(Capitalized("prometheus alert", 16))))),
                 source |-> Val(OrString(Get(labels, "instance"),
                                OrString(Get(labels, "job"),
                                         Some(Capitalized("prometheus", 10))))),
                 severity |-> mapSeverity(Get(labels, "severity"), payload.status,
                                          "prometheus"),
                 message |-> Val(OrString(Get(annotations, "description"),
                                 OrString(Get(annotations, "summary"),
                                          Some(Capitalized("prometheus alert triggered", 26))))),
                 timestamp |-> IF Val(firstAlert).startsAt # NULL
                               THEN Val(firstAlert).startsAt ELSE Some(t),
                 metadata |-> Some([status |-> OrString(payload.status,
                                               OrString(Val(firstAlert).status,
                                                        Some(Str("firing", 6))))])]))

\* transformZabbixWebhook(payload) at time t; payload.trigger is an object
transformZabbixWebhook(payload, t) ==
    Normalized("zabbix", Some(
        [title |-> Val(OrString(Val(payload.trigger).name,
                       OrString(Get(payload.event, "name"),
                                Some(Capitalized("zabbix alert", 12))))),
         source |-> Val(OrString(Get(payload.host, "name"),
                        OrString(Get(payload.trigger, "host"),
                                 Some(Capitalized("zabbix", 6))))),
         severity |-> mapSeverity(Get(payload.trigger, "priority"),
                                  Get(payload.event, "value"), "zabbix"),
         message |-> Val(OrString(Get(payload.trigger, "description"),
                         OrString(Get(payload.event, "description"),
                                  Some(Capitalized("zabbix trigger activated", 24))))),
         timestamp |-> IF Get(payload.event, "clock") # NULL
                       THEN Some(Val(Get(payload.event, "clock")) * 1000) ELSE Some(t),
         metadata |-> Some(
            "status" :> (IF Get(payload.event, "value") = Some(Str("1", 1))
                         THEN Some(Capitalized("problem", 7))
                         ELSE Some(Capitalized("ok", 2)))
            @@ "labels.trigger" :> Get(payload.trigger, "name")
            @@ "labels.host" :> Get(payload.host, "name")
            @@ "labels.priority" :> Get(payload.trigger, "priority")
            @@ "annotations.description" :> Get(payload.trigger, "description"))]))

\* transformGenericWebhook(payload) at time t; no body has a top-level host
\* that is a string
transformGenericWebhook(payload, t) ==
    Normalized("generic", Some(
        [title |-> Val(OrString(payload.title,
                       OrString(payload.subject,
                       OrString(payload.alert,
                                Some(Capitalized("generic alert", 13)))))),
         source |-> Val(OrString(payload.source,
                        OrString(payload.service,
                                 Some(Capitalized("webhook", 7))))),
         severity |-> mapSeverity(OrString(payload.severity,
                                  OrString(payload.level, payload.priority)),
                                  payload.status, "generic"),
         message |-> Val(OrString(payload.message,
                         OrString(payload.description,
                                  Some(Capitalized("alert received", 14))))),
         timestamp |-> IF payload.timestamp # NULL THEN payload.timestamp ELSE Some(t),
         metadata |-> Some([status |-> OrString(payload.status,
                                       OrString(payload.level,
                                                Some(Str("active", 6))))])]))

\* the conditions of the if statements of detectAndTransformWebhook; an
\* array, even an empty one, is truthy
Detects_CanonicalFields(payload, format) ==
    CASE format = "paniten" ->
            /\ TruthyString(payload.title) /\ TruthyString(payload.source)
            /\ TruthyString(payload.severity) /\ TruthyString(payload.message)
      [] format = "grafana" -> payload.alerts # NULL /\ TruthyString(payload.receiver)
      [] format = "prometheus" -> payload.alerts # NULL /\ TruthyString(payload.groupKey)
      [] format = "zabbix" ->
            payload.trigger # NULL /\ (payload.event # NULL \/ payload.problem # NULL)
      [] format = "generic" ->
            /\ TruthyString(payload.message)
            /\ \/ TruthyString(payload.status)
               \/ TruthyString(payload.level)
               \/ TruthyString(payload.priority)
Detects(payload, format) ==
    CASE format = "paniten" ->
            /\ TruthyString(payload.title) /\ TruthyString(payload.source)
            /\ TruthyString(payload.severity) /\ TruthyString(payload.message)
            /\ validateAlertPayload(payload)
      [] format = "grafana" -> payload.alerts # NULL /\ TruthyString(payload.receiver)
      [] format = "prometheus" -> payload.alerts # NULL /\ TruthyString(payload.groupKey)
      [] format = "zabbix" ->
            payload.trigger # NULL /\ (payload.event # NULL \/ payload.problem # NULL)
      [] format = "generic" ->
            /\ TruthyString(payload.message)
            /\ \/ TruthyString(payload.status)
               \/ TruthyString(payload.level)
               \/ TruthyString(payload.priority)

\* the order of the if statements of detectAndTransformWebhook
DetectionOrder_GenericFirst ==
    <<"generic", "zabbix", "prometheus", "grafana", "paniten">>
DetectionOrder == <<"paniten", "grafana", "prometheus", "zabbix", "generic">>

\* detectAndTransformWebhook(payload) at time t: the first if statement
\* whose condition holds returns
detectAndTransformWebhook(payload, t) ==
    LET matching == { i \in DOMAIN DetectionOrder : Detects(payload, DetectionOrder[i]) }
    IN IF matching = {} THEN Normalized("none", NULL)
       ELSE LET format == DetectionOrder[CHOOSE i \in matching :
                                             \A j \in matching : i <= j]
            IN CASE format = "paniten" -> Normalized("paniten", NULL)
                 [] format = "grafana" -> transformGrafanaWebhook(payload, t)
                 [] format = "prometheus" -> transformPrometheusWebhook(payload, t)
                 [] format = "zabbix" -> transformZabbixWebhook(payload, t)
                 [] format = "generic" -> transformGenericWebhook(payload, t)

\* the alertData the handler builds from a body that needs no transformation
CanonicalAlertData_Verbatim(body, t) ==
    [title |-> Val(body.title),
     source |-> Val(body.source),
     severity |-> Val(body.severity),
     message |-> Val(body.message),
     timestamp |-> IF body.timestamp # NULL THEN body.timestamp ELSE Some(t),
     metadata |-> NULL]
CanonicalAlertData(body, t) ==
    [title |-> trim(Val(body.title)),
     source |-> trim(Val(body.source)),
     severity |-> toLowerCase(Val(body.severity)),
     message |-> trim(Val(body.message)),
     timestamp |-> IF body.timestamp # NULL THEN body.timestamp ELSE Some(t),
     metadata |-> NULL]

\* SELECT COUNT(*) FROM alerts WHERE acknowledged = FALSE
getUnacknowledgedCount_AllRows(tbl) == Len(tbl)
getUnacknowledgedCount(tbl) ==
    Cardinality({ i \in DOMAIN tbl : ~tbl[i].acknowledged })

\* a JSON body with none of the fields the handler reads, and an element of
\* alerts with none
EmptyBody ==
    [title |-> NULL, source |-> NULL, severity |-> NULL, message |-> NULL,
     timestamp |-> NULL, status |-> NULL, level |-> NULL, priority |-> NULL,
     subject |-> NULL, alert |-> NULL, service |-> NULL, description |-> NULL,
     alerts |-> NULL, receiver |-> NULL, groupKey |-> NULL,
     commonAnnotations |-> NULL, trigger |-> NULL, event |-> NULL,
     problem |-> NULL, host |-> NULL]
EmptyAlert ==
    [labels |-> NULL, annotations |-> NULL, status |-> NULL, startsAt |-> NULL]

\* the bodies posted to /api/alert
Bodies ==
    LET title == Str("db down", 7)
        longTitle == Str("long title", MaxTitleLength + 1)
        source == Str("svc", 3)
        message == Str("timeout", 7)
        longMessage == Str("long message", MaxMessageLength + 1)
        critical == Str("critical", 8)
        canonical == [EmptyBody EXCEPT !.title = Some(title), !.source = Some(source),
                                       !.severity = Some(critical),
                                       !.message = Some(message)]
        labels(severity) == Some([alertname |-> Some(Str("cpu", 3)),
                                  instance |-> Some(Str("host1", 5)),
                                  job |-> NULL, severity |-> severity])
        annotations(summary) == Some([summary |-> Some(summary),
                                      description |-> Some(Str("load is high", 12))])
        full == Some([EmptyAlert EXCEPT !.labels = labels(Some(critical)),
                                        !.annotations = annotations(Str("cpu high", 8))])
        bare == Some(EmptyAlert)
        grafana(elements) == [EmptyBody EXCEPT !.alerts = Some(elements),
                                               !.receiver = Some(Str("ops", 3))]
        prometheus(elements) == [EmptyBody EXCEPT !.alerts = Some(elements),
                                                  !.groupKey = Some(Str("group", 5))]
        trigger(priority) == Some([name |-> Some(Str("disk full", 9)),
                                   priority |-> priority,
                                   description |-> NULL, host |-> NULL])
        event == Some([value |-> Some(Str("1", 1)), name |-> NULL,
                       description |-> NULL, clock |-> NULL])
        zabbix == [EmptyBody EXCEPT !.trigger = trigger(Some(Str("5", 1))),
                                    !.event = event,
                                    !.host = Some([name |-> Some(Str("host1", 5))])]
        generic == [EmptyBody EXCEPT !.message = Some(message)]
    IN {
        \* the canonical format
        [canonical EXCEPT !.timestamp = Some(1)],
        [canonical EXCEPT !.title = Some(Padded(title)), !.source = Some(Padded(source)),
                          !.message = Some(Padded(message)),
                          !.severity = Some(Str("warning", 7))],
        [canonical EXCEPT !.alerts = Some(<<full>>), !.receiver = Some(Str("ops", 3))],
        [canonical EXCEPT !.severity = Some(UpperCased(critical))],
        [canonical EXCEPT !.severity = Some(UpperCased(critical)),
                          !.status = Some(Str("firing", 6))],
        [canonical EXCEPT !.severity = Some(Str("bogus", 5))],
        [canonical EXCEPT !.title = Some(longTitle)],
        [canonical EXCEPT !.title = Some(longTitle), !.status = Some(Str("firing", 6))],
        [canonical EXCEPT !.message = Some(longMessage), !.level = Some(Str("warn", 4))],
        [canonical EXCEPT !.message = Some(longMessage)],
        \* Grafana and Alertmanager
        [grafana(<<full>>) EXCEPT !.status = Some(Str("firing", 6))],
        grafana(<<bare>>),
        [grafana(<<bare>>) EXCEPT !.status = Some(Str("firing", 6))],
        grafana(<<NULL>>),
        grafana(<<full, NULL>>),
        grafana(<<>>),
        [grafana(<<>>) EXCEPT !.message = Some(message), !.status = Some(Str("error", 5))],
        [grafana(<<full>>) EXCEPT !.groupKey = Some(Str("group", 5))],
        grafana(<<Some([EmptyAlert EXCEPT !.annotations = annotations(longTitle)])>>),
        grafana(<<Some([EmptyAlert EXCEPT !.labels = labels(Some(Padded(critical)))])>>),
        [prometheus(<<Some([EmptyAlert EXCEPT !.labels = labels(Some(Str("page", 4)))])>>)
            EXCEPT !.status = Some(Str("resolved", 8))],
        prometheus(<<bare>>),
        prometheus(<<>>),
        [EmptyBody EXCEPT !.alerts = Some(<<>>)],
        [EmptyBody EXCEPT !.alerts = Some(<<full>>)],
        \* Zabbix
        zabbix,
        [zabbix EXCEPT !.message = Some(message), !.status = Some(Str("info", 4))],
        [EmptyBody EXCEPT !.trigger = trigger(NULL), !.problem = event],
        [EmptyBody EXCEPT !.trigger = trigger(Some(Str("3", 1)))],
        \* generic
        [generic EXCEPT !.status = Some(Str("error", 5))],
        [generic EXCEPT !.level = Some(Str("warn", 4)), !.subject = Some(title)],
        [generic EXCEPT !.priority = Some(Str("high", 4)), !.timestamp = Some(2)],
        \* none
        generic,
        [EmptyBody EXCEPT !.title = Some(title)],
        EmptyBody }

\* app.post('/api/alert'): the handler up to its response; the bot and the
\* chat are configured, so sendAlert is started for every alert created
PostApiAlert(body) ==
    LET transformed == detectAndTransformWebhook(body, now)
        Responds(status, id) ==
            response' = Some([body |-> body, format |-> transformed.format,
                              status |-> status, id |-> id])
        Creates(alertData) ==
            /\ Len(alerts) < MaxPosts
            /\ alerts' = createAlert(alerts, alertData, now)
            /\ delivery' = Append(delivery, [state |-> "none", message_id |-> 0])
            /\ wins' = Append(wins, NoWins)
            /\ Responds(201, Some(Len(alerts) + 1))
        Fails(status) ==
            /\ Responds(status, NULL)
            /\ UNCHANGED <<alerts, delivery, wins>>
    IN /\ IF transformed.throws THEN Fails(500)
          ELSE IF transformed.alertData # NULL THEN Creates(Val(transformed.alertData))
          ELSE IF ~validateAlertPayload(body) THEN Fails(400)
          ELSE Creates(CanonicalAlertData(body, now))
       /\ UNCHANGED <<now, calls, chat, queries, answered, mapped, config, request, report, command, db>>

(* --------------- POST /api/alert: the request, step by step ------------- *)
\* the configurations: with or without a webhook secret, a bot, a chat
Configs ==
    [WEBHOOK_SECRET : {NULL, Some("s3cret")}, BOT_TOKEN : BOOLEAN, CHAT_ID : BOOLEAN,
     AUTHORIZED_USERS : {Configured.AUTHORIZED_USERS}]

\* the Authorization headers of the requests, split at the blanks: none, the
\* secret, another token, a scheme without a token
Authorizations ==
    {NULL, Some(<<"Bearer", "s3cret">>), Some(<<"Bearer", "S3CRET">>), Some(<<"Bearer">>)}

\* authHeader && authHeader.split(' ')[1]
TokenOf(authorization) ==
    IF authorization # NULL /\ Len(Val(authorization)) >= 2
    THEN Some(Val(authorization)[2]) ELSE NULL

\* authenticateToken: the status it responds with, NULL when it calls next()
authenticateToken_AnyToken(cfg, authorization) ==
    IF cfg.WEBHOOK_SECRET = NULL THEN NULL
    ELSE IF TokenOf(authorization) = NULL THEN Some(401)
    ELSE NULL
authenticateToken(cfg, authorization) ==
    IF cfg.WEBHOOK_SECRET = NULL THEN NULL
    ELSE IF TokenOf(authorization) = NULL THEN Some(401)
    ELSE IF TokenOf(authorization) # cfg.WEBHOOK_SECRET THEN Some(403)
    ELSE NULL

\* a request: where its handler stands ("createAlert": at await
\* db.createAlert; "done": returned; "rejected": its promise rejected), the
\* status of the response sent, if any, and the alertData given to createAlert
Request(authorization, body, pc, status, alertData) ==
    [authorization |-> authorization, body |-> body, pc |-> pc,
     status |-> status, alertData |-> alertData]

\* the handler is at await db.createAlert
AtCreateAlert == request # NULL /\ Val(request).pc = "createAlert"

\* a request arrives, one at a time: authenticateToken and the handler run
\* up to the response or to await db.createAlert(alertData)
Receive(authorization, body) ==
    /\ ~AtCreateAlert
    /\ LET auth == authenticateToken(config, authorization)
           transformed == detectAndTransformWebhook(body, now)
           Responds(status) ==
                request' = Some(Request(authorization, body, "done", Some(status), NULL))
           Awaits(alertData) ==
                /\ Len(alerts) < MaxPosts
                /\ request' = Some(Request(authorization, body, "createAlert", NULL,
                                           Some(alertData)))
       IN IF auth # NULL THEN Responds(Val(auth))
          ELSE IF transformed.throws THEN Responds(500)
          ELSE IF transformed.alertData # NULL THEN Awaits(Val(transformed.alertData))
          ELSE IF ~validateAlertPayload(body) THEN Responds(400)
          ELSE Awaits(CanonicalAlertData(body, now))
    /\ UNCHANGED <<alerts, now, calls, chat, delivery, queries, answered, wins,
                   response, mapped, config, report, command, db>>

\* the callback of req.setTimeout runs before the response: res.headersSent
\* is false and 408 is sent
Timeout_Aborts ==
    /\ AtCreateAlert
    /\ Val(request).status = NULL
    /\ request' = Some([Val(request) EXCEPT !.status = Some(408), !.pc = "done"])
    /\ UNCHANGED <<alerts, now, calls, chat, delivery, queries, answered, wins,
                   response, mapped, config, report, command, db>>
Timeout ==
    /\ AtCreateAlert
    /\ Val(request).status = NULL
    /\ request' = Some([Val(request) EXCEPT !.status = Some(408)])
    /\ UNCHANGED <<alerts, now, calls, chat, delivery, queries, answered, wins,
                   response, mapped, config, report, command, db>>

\* what the handler does when db.createAlert has settled and it comes to
\* res.status(status).json(): after a 408 the headers are sent, json()
\* throws, in the catch block as well, and the handler's promise rejects
Settled(req, status) ==
    IF req.status = NULL THEN [req EXCEPT !.pc = "done", !.status = Some(status)]
    ELSE [req EXCEPT !.pc = "rejected"]

\* the INSERT of db.createAlert commits and the handler runs on: sendAlert is
\* started when there are a bot and a chat, then 201 is sent
CreateAlertCommits ==
    /\ AtCreateAlert
    /\ alerts' = createAlert(alerts, Val(Val(request).alertData), now)
    /\ delivery' = Append(delivery,
            [state |-> IF config.BOT_TOKEN /\ config.CHAT_ID THEN "none" ELSE "skipped",
             message_id |-> 0])
    /\ wins' = Append(wins, NoWins)
    /\ request' = Some(Settled(Val(request), 201))
    /\ UNCHANGED <<now, calls, chat, queries, answered, response, mapped, config, report, command, db>>

\* db.createAlert rejects: no row, the catch block sends 500
CreateAlertRejects ==
    /\ AtCreateAlert
    /\ request' = Some(Settled(Val(request), 500))
    /\ UNCHANGED <<alerts, now, calls, chat, delivery, queries, answered, wins,
                   response, mapped, config, report, command, db>>

\* bot.sendMessage of sendAlert rejects (an error of the API or its
\* timeout): sendAlert rethrows and the handler's catch() logs
SendMessageFails_Propagated(i) ==
    /\ i \in DOMAIN alerts
    /\ delivery[i].state = "none"
    /\ delivery' = [delivery EXCEPT ![i].state = "failed"]
    /\ request' = Some([Val(request) EXCEPT !.status = Some(500)])
    /\ UNCHANGED <<alerts, now, calls, chat, queries, answered, wins, response, mapped,
                   config, report, command, db>>
SendMessageFails(i) ==
    /\ i \in DOMAIN alerts
    /\ delivery[i].state = "none"
    /\ delivery' = [delivery EXCEPT ![i].state = "failed"]
    /\ UNCHANGED <<alerts, now, calls, chat, queries, answered, wins, response, mapped,
                   config, request, report, command, db>>

\* sendAlert after bot.sendMessage: db.updateTelegramInfo(alert.id,
\* sentMessage.message_id, this.chatId) runs
UpdateTelegramInfo_Unsent(i) ==
    /\ i \in DOMAIN alerts
    /\ delivery[i].state \in {"sent", "failed"}
    /\ alerts' = updateTelegramInfo(alerts, i, delivery[i].message_id, ChatId)
    /\ delivery' = [delivery EXCEPT ![i].state = "tracked"]
    /\ UNCHANGED <<now, calls, chat, queries, answered, wins, response, mapped,
                   config, request, report, command, db>>
UpdateTelegramInfo(i) ==
    /\ i \in DOMAIN alerts
    /\ delivery[i].state = "sent"
    /\ alerts' = updateTelegramInfo(alerts, i, delivery[i].message_id, ChatId)
    /\ delivery' = [delivery EXCEPT ![i].state = "tracked"]
    /\ UNCHANGED <<now, calls, chat, queries, answered, wins, response, mapped,
                   config, request, report, command, db>>

\* db.updateTelegramInfo rejects: sendAlert rethrows, the catch() logs
UpdateTelegramInfoFails(i) ==
    /\ i \in DOMAIN alerts
    /\ delivery[i].state = "sent"
    /\ delivery' = [delivery EXCEPT ![i].state = "untracked"]
    /\ UNCHANGED <<alerts, now, calls, chat, queries, answered, wins, response, mapped,
                   config, request, report, command, db>>

(* ------------------- callback data of any kind ------------------------- *)
\* the ids of the buttons whose data are parsed
MaxButtonId == 12

\* the data of callback queries: those of the buttons of the ids up to
\* MaxButtonId, digits with leading zeros, the empty string, and strings
\* that are no button's data
CallbackTokens ==
    { createAcknowledgeKeyboard(i)[1].callback_data : i \in 0..MaxButtonId }
        \cup { createResolveKeyboard(i)[1].callback_data : i \in 0..MaxButtonId }
        \cup { <<>>,
          <<"a", "c", "k", "_", "0", "0", "7">>,
          <<"r", "e", "s", "o", "l", "v", "e", "_", "0", "1", "0">>,
          <<"a", "c", "k", "_">>,
          <<"r", "e", "s", "o", "l", "v", "e", "_">>,
          <<"a", "c", "k", "_", "1", "x">>,
          <<"a", "c", "k", "_", "x", "1">>,
          <<"A", "C", "K", "_", "1">>,
          <<"a", "c", "k", "_", "-", "1">>,
          <<" ", "a", "c", "k", "_", "1">>,
          <<"a", "c", "k", "_", "1", " ">>,
          <<"a", "c", "k", "_", "1", "_", "2">>,
          <<"a", "c", "k", "1">>,
          <<"r", "e", "s", "o", "l", "v", "e", "1">>,
          <<"r", "e", "s", "o", "l", "v", "e", "_", "1", ".", "5">>,
          <<"r", "e", "s", "o", "l", "v", "e", "d", "_", "1">>,
          <<"x", "a", "c", "k", "_", "1">>,
          <<"a", "c", "k", "_", "1", "\n", "2">>,
          <<"m", "u", "t", "e", "_", "1">>,
          <<"1", "2">> }

(* ------------------------- the report queries -------------------------- *)
Week == 604800
TopLimit == 5

\* strftime('%s', 'now', '-7 days') at time t
WindowStart(t) == t - Week

\* the row createAlert inserts, with the column default of created_at
StampedRow(alertData, t) == NewRow(alertData, t) @@ [created_at |-> t]

\* Database.getWeeklyReport at time t: COUNT(*) of no row is 0, SUM of no
\* row is NULL
getWeeklyReport(tbl, t) ==
    LET window == { i \in DOMAIN tbl : tbl[i].created_at >= WindowStart(t) }
        SUM(Case(_)) ==
            IF window = {} THEN NULL
            ELSE Some(Cardinality({ i \in window : Case(tbl[i]) }))
    IN [total |-> Some(Cardinality(window)),
        acknowledged |-> SUM(LAMBDA row : row.acknowledged = TRUE),
        resolved |-> SUM(LAMBDA row : row.resolved = TRUE),
        unacknowledged |-> SUM(LAMBDA row : row.acknowledged = FALSE),
        critical |-> SUM(LAMBDA row : row.severity = "critical"),
        warning |-> SUM(LAMBDA row : row.severity = "warning"),
        info |-> SUM(LAMBDA row : row.severity = "info")]

\* ORDER BY <count> DESC LIMIT 5 of the rows of a GROUP BY: the results
\* SQLite may return, rows with equal counts coming in any order
Ranked(groups, count) ==
    LET n == Cardinality(groups)
        limit == IF n < TopLimit THEN n ELSE TopLimit
    IN { SubSeq(f, 1, limit) :
            f \in { g \in [1..n -> groups] :
                        \A i, j \in 1..n :
                            i < j => g[i] # g[j] /\ g[i][count] >= g[j][count] } }

\* Database.getTopAcknowledgers at time t; the bare columns of a group are
\* those of one of its rows
getTopAcknowledgers(tbl, t) ==
    LET rows == { i \in DOMAIN tbl :
                    /\ tbl[i].acknowledged = TRUE
                    /\ Val(tbl[i].acknowledged_at) >= WindowStart(t)
                    /\ tbl[i].acknowledged_by # NULL }
        group(id) == { i \in rows : tbl[i].acknowledged_by_id = id }
        result(id) ==
            LET row == tbl[CHOOSE i \in group(id) : TRUE]
            IN [acknowledged_by_name |-> row.acknowledged_by_name,
                acknowledged_by |-> row.acknowledged_by,
                ack_count |-> Cardinality(group(id)),
                resolved_count |-> Cardinality({ i \in group(id) : tbl[i].resolved = TRUE })]
    IN Ranked({ result(tbl[i].acknowledged_by_id) : i \in rows },
              "ack_count")

\* Database.getTopResolvers at time t
getTopResolvers(tbl, t) ==
    LET rows == { i \in DOMAIN tbl :
                    /\ tbl[i].resolved = TRUE
                    /\ Val(tbl[i].resolved_at) >= WindowStart(t)
                    /\ tbl[i].resolved_by # NULL }
        group(id) == { i \in rows : tbl[i].resolved_by_id = id }
        result(id) ==
            LET row == tbl[CHOOSE i \in group(id) : TRUE]
            IN [resolved_by_name |-> row.resolved_by_name,
                resolved_by |-> row.resolved_by,
                count |-> Cardinality(group(id))]
    IN Ranked({ result(tbl[i].resolved_by_id) : i \in rows }, "count")

\* the actors of the reports: one with a name and a handle, one with neither
ReportActors ==
    { extractUserInfo(u) : u \in { u \in Users : Truthy(u.first_name) \/ ~Truthy(u.username) } }

\* db.createAlert(alertData) commits a row; the table of the reports holds
\* one row more than that of the direct calls
InsertAlert(alertData) ==
    /\ report = NULL
    /\ Len(alerts) < MaxAlerts + 1
    /\ alerts' = Append(alerts, StampedRow(alertData, now))
    /\ wins' = Append(wins, NoWins)
    /\ UNCHANGED <<now, calls, chat, delivery, queries, answered, response, mapped,
                   config, request, report, command, db>>

\* db.acknowledgeAlert(alertId, userInfo) runs
Acknowledge(alertId, userInfo) ==
    /\ report = NULL
    /\ LET r == acknowledgeAlert(alerts, alertId, userInfo, now)
       IN /\ alerts' = r.table
          /\ wins' = Won(wins, "acknowledged", alertId, r.result)
    /\ UNCHANGED <<now, calls, chat, delivery, queries, answered, response, mapped,
                   config, request, report, command, db>>

\* db.resolveAlert(alertId, userInfo) runs
Resolve(alertId, userInfo) ==
    /\ report = NULL
    /\ LET r == resolveAlert(alerts, alertId, userInfo, now)
       IN /\ alerts' = r.table
          /\ wins' = Won(wins, "resolved", alertId, r.result)
    /\ UNCHANGED <<now, calls, chat, delivery, queries, answered, response, mapped,
                   config, request, report, command, db>>

\* more than seven days pass
WeekPasses ==
    /\ report = NULL
    /\ now <= MaxTime
    /\ now' = now + Week + 1
    /\ UNCHANGED <<alerts, calls, chat, delivery, queries, answered, wins, response,
                   mapped, config, request, report, command, db>>

\* the /report handler: the three queries of its Promise.all run, on the
\* same table; the queries change nothing, so one report per behaviour is
\* examined
Report ==
    /\ report = NULL
    /\ \E topAcknowledgers \in getTopAcknowledgers(alerts, now),
          topResolvers \in getTopResolvers(alerts, now) :
            report' = Some([stats |-> getWeeklyReport(alerts, now),
                            topAcknowledgers |-> topAcknowledgers,
                            topResolvers |-> topResolvers])
    /\ UNCHANGED <<alerts, now, calls, chat, delivery, queries, answered, wins,
                   response, mapped, config, request, command, db>>

(* ------------------------- the text commands --------------------------- *)
\* PanitenBot.isUserAuthorized: the entries of the list are strings, here
\* the digits of an id, "@" and a handle, or a handle
isUserAuthorized_AnyHandle(authorizedUsers, user) ==
    \/ Len(authorizedUsers) = 0
    \/ \E k \in DOMAIN authorizedUsers : authorizedUsers[k] = Digits(user.id)
    \/ Truthy(user.username)
isUserAuthorized(authorizedUsers, user) ==
    LET includes(entry) == \E k \in DOMAIN authorizedUsers : authorizedUsers[k] = entry
    IN IF Len(authorizedUsers) = 0 THEN TRUE
       ELSE IF includes(Digits(user.id)) THEN TRUE
       ELSE IF Truthy(user.username) /\ includes(<<"@">> \o Val(user.username)) THEN TRUE
       ELSE IF Truthy(user.username) /\ includes(Val(user.username)) THEN TRUE
       ELSE FALSE

\* the values of AUTHORIZED_USERS: empty, an id, an "@" handle, a bare
\* handle, and a list that names a first name and the id of the user
\* without a handle
AuthorizedLists ==
    { <<>>,
      << Digits(101) >>,
      << <<"@", "bob">> >>,
      << <<"bob">> >>,
      << <<"Alice">>, Digits(103) >> }

\* the four commands of setupCommandHandlers
Commands == {"/start", "/status", "/report", "/help"}

\* a message with one of the commands arrives and its handler runs to its
\* end: the reply sent to the chat and the repository queries awaited
Command(text, from) ==
    LET Handled(reply, args, queried) ==
            command' = Some([command |-> text, from |-> from,
                             reply |-> [text |-> reply, args |-> args],
                             queried |-> queried])
    IN /\ IF ~isUserAuthorized(config.AUTHORIZED_USERS, from)
          THEN Handled(IF text = "/start"
                       THEN "Access denied. Contact administrator to get authorized."
                       ELSE "Access denied.", <<>>, {})
          ELSE CASE text = "/start" -> Handled("Paniten Bot", <<>>, {})
                 [] text = "/help" -> Handled("Paniten Bot Help Guide", <<>>, {})
                 [] text = "/status" ->
                        Handled("Status", <<getUnacknowledgedCount(alerts)>>,
                                {"getUnacknowledgedCount"})
                 [] text = "/report" ->
                        \E topAcknowledgers \in getTopAcknowledgers(alerts, now),
                           topResolvers \in getTopResolvers(alerts, now) :
                            Handled("Weekly Alert Report",
                                    <<getWeeklyReport(alerts, now), topAcknowledgers,
                                      topResolvers>>,
                                    {"getWeeklyReport", "getTopAcknowledgers",
                                     "getTopResolvers"})
       /\ UNCHANGED <<alerts, now, calls, chat, delivery, queries, answered, wins,
                      response, mapped, config, request, report, db>>

(* --------------------------- specifications ---------------------------- *)
Init ==
    /\ alerts = <<>>
    /\ now = 1
    /\ calls = [c \in Calls |-> FreeCall]
    /\ chat = <<OldMessage>>
    /\ delivery = <<>>
    /\ queries = EmptyBag
    /\ answered = NULL
    /\ wins = <<>>
    /\ response = NULL
    /\ mapped = NULL
    /\ config = Configured
    /\ request = NULL
    /\ report = NULL
    /\ command = NULL
    /\ db = ReadyDatabase

\* the bot: alerts are posted and notified, buttons are pressed.  The clock
\* stands still here: the handlers never read it, it only stamps the rows
Next ==
    \/ \E alertData \in AlertInputs : PostAlert(alertData)
    \/ \E i \in 1..MaxPosts : SendMessage(i)
    \/ \E data \in CallbackData, from \in Pressers : CallbackQuery(data, from)
    \/ \E query \in Handlers : AcknowledgeDb(query)
    \/ \E query \in Handlers : ResolveDb(query)
    \/ \E query \in Handlers : EditAcknowledged(query)
    \/ \E query \in Handlers : EditResolved(query)
    \/ \E query \in Handlers : EditFails(query)
    \/ AnswerCallbackQuery

Spec == Init /\ [][Next]_vars

\* the repository alone: any callers, any interleaving of its operations
NextRepo ==
    \/ \E alertData \in AlertInputs : CreateAlert(alertData)
    \/ Tick
    \/ \E c \in Calls, op \in {"acknowledge", "resolve"},
          alertId \in CallIds, userInfo \in UserInfos :
            IssueCall(c, op, alertId, userInfo)
    \/ \E c \in Calls : ExecAcknowledge(c)
    \/ \E c \in Calls : ExecResolve(c)

SpecRepo == Init /\ [][NextRepo]_vars

\* the three UPDATE statements of the repository, called directly
NextFrame ==
    \/ \E alertData \in AlertInputs : CreateAlert(alertData)
    \/ \E c \in Calls, op \in {"acknowledge", "resolve"},
          alertId \in CallIds, userInfo \in UserInfos :
            IssueCall(c, op, alertId, userInfo)
    \/ \E c \in Calls, alertId \in CallIds, userInfo \in UserInfos :
            /\ Truthy(userInfo.firstName)
            /\ IssueCall(c, "updateTelegramInfo", alertId, userInfo)
    \/ \E c \in Calls : ExecAcknowledge(c)
    \/ \E c \in Calls : ExecResolve(c)
    \/ \E c \in Calls : ExecUpdateTelegramInfo(c)

SpecFrame == Init /\ [][NextFrame]_vars

\* the webhook endpoint, on the bodies that carry a timestamp and the empty
\* body, and direct acknowledge and resolve calls
NextCount ==
    \/ \E body \in Bodies :
            /\ body.timestamp # NULL \/ body = EmptyBody
            /\ PostApiAlert(body)
    \/ \E c \in Calls, op \in {"acknowledge", "resolve"},
          alertId \in CallIds, userInfo \in UserInfos :
            /\ Truthy(userInfo.firstName)
            /\ IssueCall(c, op, alertId, userInfo)
    \/ \E c \in Calls : ExecAcknowledge(c)
    \/ \E c \in Calls : ExecResolve(c)

SpecCount == Init /\ [][NextCount]_vars

\* the table under creations, acknowledgements and resolutions, and a report
NextReport ==
    \/ \E alertData \in AlertInputs : InsertAlert(alertData)
    \/ \E alertId \in 1..(MaxAlerts + 1), userInfo \in ReportActors :
            Acknowledge(alertId, userInfo)
    \/ \E alertId \in 1..(MaxAlerts + 1), userInfo \in ReportActors :
            Resolve(alertId, userInfo)
    \/ WeekPasses
    \/ Report

SpecReport == Init /\ [][NextReport]_vars

\* the webhook endpoint step by step, under every configuration, and the
\* delivery of the notifications
InitRequest ==
    /\ alerts = <<>>
    /\ now = 1
    /\ calls = [c \in Calls |-> FreeCall]
    /\ chat = <<OldMessage>>
    /\ delivery = <<>>
    /\ queries = EmptyBag
    /\ answered = NULL
    /\ wins = <<>>
    /\ response = NULL
    /\ mapped = NULL
    /\ config \in Configs
    /\ request = NULL
    /\ report = NULL
    /\ command = NULL
    /\ db = ReadyDatabase

NextRequest ==
    \/ \E authorization \in Authorizations, body \in Bodies :
            /\ body.timestamp # NULL \/ body = EmptyBody \/ body.alerts = Some(<<NULL>>)
            /\ Receive(authorization, body)
    \/ Timeout
    \/ CreateAlertCommits
    \/ CreateAlertRejects
    \/ \E i \in 1..MaxPosts : SendMessage(i)
    \/ \E i \in 1..MaxPosts : SendMessageFails(i)
    \/ \E i \in 1..MaxPosts : UpdateTelegramInfo(i)
    \/ \E i \in 1..MaxPosts : UpdateTelegramInfoFails(i)

SpecRequest == InitRequest /\ [][NextRequest]_vars

\* the callback_query handler up to its first repository call, on callback
\* data of any kind
NextCallback ==
    \/ \E alertData \in AlertInputs : PostAlert(alertData)
    \/ \E i \in 1..MaxPosts : SendMessage(i)
    \/ \E data \in CallbackTokens, from \in Pressers : CallbackQuery(data, from)
    \/ AnswerCallbackQuery

SpecCallback == Init /\ [][NextCallback]_vars

\* the text commands under every value of AUTHORIZED_USERS, on a table
\* with acknowledged and unacknowledged alerts
InitCommands ==
    /\ alerts = <<>>
    /\ now = 1
    /\ calls = [c \in Calls |-> FreeCall]
    /\ chat = <<OldMessage>>
    /\ delivery = <<>>
    /\ queries = EmptyBag
    /\ answered = NULL
    /\ wins = <<>>
    /\ response = NULL
    /\ mapped = NULL
    /\ config \in { [Configured EXCEPT !.AUTHORIZED_USERS = list] : list \in AuthorizedLists }
    /\ request = NULL
    /\ report = NULL
    /\ command = NULL
    /\ db = ReadyDatabase

NextCommands ==
    \/ \E alertData \in AlertInputs : InsertAlert(alertData)
    \/ \E alertId \in 1..(MaxAlerts + 1), userInfo \in ReportActors :
            Acknowledge(alertId, userInfo)
    \/ \E text \in Commands, from \in Users : Command(text, from)

SpecCommands == InitCommands /\ [][NextCommands]_vars

\* the Database object from its construction on: init() runs statement by
\* statement while operations are called; the timers of waitForInit fire
InitReady ==
    /\ alerts = <<>>
    /\ now = 1
    /\ calls = [c \in Calls |-> FreeCall]
    /\ chat = <<OldMessage>>
    /\ delivery = <<>>
    /\ queries = EmptyBag
    /\ answered = NULL
    /\ wins = <<>>
    /\ response = NULL
    /\ mapped = NULL
    /\ config = Configured
    /\ request = NULL
    /\ report = NULL
    /\ command = NULL
    /\ db = NewDatabase

NextReady ==
    \/ \E err \in BOOLEAN : openDatabase(err)
    \/ \E err \in BOOLEAN, row \in BOOLEAN : setupDatabase(err, row)
    \/ \E err \in BOOLEAN : createTable(err)
    \/ \E err \in BOOLEAN : createIndexes(err)
    \/ \E op \in Operations : waitForInit(op)
    \/ \E op \in Operations : checkInit(op)

SpecReady ==
    InitReady /\ [][NextReady]_vars /\ \A op \in Operations : WF_vars(checkInit(op))

\* mapSeverity alone, on every combination of its arguments
NextSeverity ==
    \E severity \in SeverityTokens, status \in SeverityTokens, source \in SourceKinds :
        MapSeverity(severity, status, source)

SpecSeverity == Init /\ [][NextSeverity]_vars

\* the webhook endpoint alone
NextIngest ==
    \/ \E body \in Bodies : PostApiAlert(body)
    \/ Tick

SpecIngest == Init /\ [][NextIngest]_vars


(* ============================== properties ============================= *)
AckFields(row) ==
    <<row.acknowledged, row.acknowledged_by, row.acknowledged_by_id,
      row.acknowledged_by_name, row.acknowledged_at>>
ResolvedFields(row) ==
    <<row.resolved, row.resolved_by, row.resolved_by_id,
      row.resolved_by_name, row.resolved_at>>
\* the attribution a call of userInfo at time t writes
FieldsOf(userInfo, t) ==
    <<TRUE, userInfo.username, Some(userInfo.id), Some(fullName(userInfo)), Some(t)>>
Unset == <<FALSE, NULL, NULL, NULL, NULL>>

\* the UPDATE of the direct call c runs in this step
Executes(c, op) ==
    Pending(c) /\ calls[c].op = op /\ calls'[c].state = "returned"

\* C1: in every reachable state of the repository, under any interleaving of
\* createAlert, acknowledgeAlert and resolveAlert calls, every alert that is
\* resolved is acknowledged.
C1_ResolvedImpliesAcknowledged ==
    \A i \in DOMAIN alerts : alerts[i].resolved => alerts[i].acknowledged

\* a resolveAlert call has returned true and its alert is resolved
C1_Witness ==
    \E c \in Calls :
        /\ Returned(c) /\ calls[c].op = "resolve" /\ calls[c].result
        /\ alerts[calls[c].alertId].resolved

\* two acknowledgeAlert calls by different actors that were pending together
\* on an alert that was unacknowledged when each was issued
RacingAcknowledges(c1, c2) ==
    /\ c1 # c2
    /\ Returned(c1) /\ Returned(c2)
    /\ calls[c1].op = "acknowledge" /\ calls[c2].op = "acknowledge"
    /\ calls[c1].alertId = calls[c2].alertId
    /\ calls[c1].userInfo # calls[c2].userInfo
    /\ calls[c1].unackAtIssue /\ calls[c2].unackAtIssue
    /\ c1 \in calls[c2].concurrent
    /\ \A c3 \in Calls \ {c1, c2} :
            ~(/\ Returned(c3) /\ calls[c3].op = "acknowledge"
              /\ calls[c3].alertId = calls[c1].alertId /\ calls[c3].result)

\* C2: of two concurrent acknowledgeAlert calls by different actors on the
\* same unacknowledged alert, exactly one returns true, and the persisted
\* acknowledged_by, acknowledged_by_id and acknowledged_by_name are those of
\* the actor whose call returned true.
C2_ConcurrentAcknowledge ==
    \A c1, c2 \in Calls :
        RacingAcknowledges(c1, c2) =>
            /\ calls[c1].result # calls[c2].result
            /\ LET w == IF calls[c1].result THEN c1 ELSE c2
                   userInfo == Val(calls[w].userInfo)
                   row == alerts[calls[w].alertId]
               IN /\ row.acknowledged
                  /\ row.acknowledged_by = userInfo.username
                  /\ row.acknowledged_by_id = Some(userInfo.id)
                  /\ row.acknowledged_by_name = Some(fullName(userInfo))

\* both racing calls have returned: the one issued first won
C2_Witness ==
    \E c1, c2 \in Calls :
        RacingAcknowledges(c1, c2) /\ calls[c1].result /\ ~calls[c2].result

\* C3: once an acknowledgeAlert on an alert has returned true, every later
\* acknowledgeAlert on it, by any actor, returns false, and acknowledged,
\* acknowledged_by, acknowledged_by_id, acknowledged_by_name and
\* acknowledged_at stay exactly as the successful call set them (which is:
\* the attribution of its actor and the time of its UPDATE).
C3_AcknowledgeIdempotent ==
    [][ /\ \A c \in Calls :
            Executes(c, "acknowledge") /\ calls[c].alertId \in DOMAIN alerts =>
                LET i == calls[c].alertId
                IN IF wins[i].acknowledged > 0
                   THEN ~calls'[c].result /\ alerts'[i] = alerts[i]
                   ELSE /\ calls'[c].result
                        /\ AckFields(alerts'[i]) = FieldsOf(Val(calls[c].userInfo), now)
        /\ \A i \in DOMAIN alerts :
            wins[i].acknowledged > 0 => AckFields(alerts'[i]) = AckFields(alerts[i])
      ]_vars

\* an acknowledgeAlert issued after the alert was acknowledged by another
\* actor has returned false
C3_Witness ==
    \E c0, c \in Calls :
        /\ Returned(c0) /\ calls[c0].op = "acknowledge" /\ calls[c0].result
        /\ Returned(c) /\ calls[c].op = "acknowledge" /\ ~calls[c].result
        /\ calls[c].alertId = calls[c0].alertId
        /\ ~calls[c].unackAtIssue
        /\ calls[c].userInfo # calls[c0].userInfo
        /\ AckFields(alerts[calls[c0].alertId])[3] = Some(Val(calls[c0].userInfo).id)

\* C4: resolveAlert on an alert that was never acknowledged returns false
\* and leaves resolved = false and resolved_by, resolved_by_id,
\* resolved_by_name, resolved_at unset, whatever happens to other alerts.
C4_ResolveNeedsAcknowledge ==
    [][ \A c \in Calls :
            /\ Executes(c, "resolve")
            /\ calls[c].alertId \in DOMAIN alerts
            /\ wins[calls[c].alertId].acknowledged = 0
            => /\ ~calls'[c].result
               /\ ResolvedFields(alerts'[calls[c].alertId]) = Unset
               /\ alerts' = alerts
      ]_vars

\* a resolveAlert on a never-acknowledged alert has returned while another
\* alert was acknowledged
C4_Witness ==
    \E c \in Calls, j \in DOMAIN alerts :
        /\ Returned(c) /\ calls[c].op = "resolve"
        /\ calls[c].alertId \in DOMAIN alerts
        /\ calls[c].alertId # j
        /\ wins[calls[c].alertId].acknowledged = 0
        /\ alerts[j].acknowledged


\* C5: for every alert at most one resolveAlert call ever returns true;
\* once the alert is resolved, no acknowledgeAlert or resolveAlert on it
\* returns true again and none of its acknowledged_* and resolved_* fields
\* changes again.
C5_ResolveOnceAndTerminal ==
    /\ [](\A i \in DOMAIN wins : wins[i].resolved <= 1)
    /\ [][ \A i \in DOMAIN alerts :
                alerts[i].resolved =>
                    /\ wins'[i] = wins[i]
                    /\ AckFields(alerts'[i]) = AckFields(alerts[i])
                    /\ ResolvedFields(alerts'[i]) = ResolvedFields(alerts[i])
          ]_vars

\* a second resolveAlert on a resolved alert has returned false
C5_Witness ==
    /\ answered # NULL
    /\ Val(answered).answer.text = "Failed to resolve alert"
    /\ Val(answered).alertId \in DOMAIN alerts
    /\ alerts[Val(answered).alertId].resolved
    /\ wins[Val(answered).alertId].resolved = 1

\* the handler query was awaiting the repository call of pc and returns in
\* this step without going on to an edit: the call returned false
LosesRace(query, pc) == query.pc = pc /\ queries' = Finished(query)

\* alert.acknowledged_by_name, else alert.acknowledged_by, of a row
AttributionOf(name, handle) ==
    IF Truthy(name) THEN Val(name)
    ELSE IF Truthy(handle) THEN Val(handle)
    ELSE <<"Unknown", "user">>

\* C6: an acknowledge request that passed the pre-check and whose
\* Repository.acknowledge returns false (race lost) is answered with the
\* AlreadyDone outcome of an acknowledge request on an already acknowledged
\* alert: "Already acknowledged by <the acknowledger>", not a failure.
C6_RaceLoserAlreadyAcknowledged ==
    [][ \A query \in Handlers :
            LosesRace(query, "acknowledgeAlert") =>
                LET row == alerts'[query.alertId]
                IN Val(answered').answer =
                    Answer("Already acknowledged by",
                           AttributionOf(row.acknowledged_by_name, row.acknowledged_by),
                           FALSE)
      ]_vars

\* C7: a resolve request that passed both pre-checks and whose
\* Repository.resolve returns false (a concurrent resolve landed first) is
\* answered with an AlreadyDone or Precondition outcome, never a failure.
C7_RaceLoserAlreadyResolved ==
    [][ \A query \in Handlers :
            LosesRace(query, "resolveAlert") =>
                LET row == alerts'[query.alertId]
                IN Val(answered').answer \in
                    { Answer("Already resolved by",
                             AttributionOf(row.resolved_by_name, row.resolved_by),
                             FALSE),
                      Answer("Alert must be acknowledged before resolving", <<>>, TRUE) }
      ]_vars

\* a callback for (alertId, action) is handled in this step up to its
\* answer or to its repository call
Handles(alertId, action) ==
    \/ /\ queries' = queries
       /\ answered' # NULL
       /\ Val(answered').alertId = alertId
       /\ Val(answered').action = action
    \/ \E query \in BagToSet(queries') :
        /\ queries' = Started(query)
        /\ query.alertId = alertId
        /\ query.action = action

\* the handler has returned: it awaits no repository call and no edit, and
\* neither the table nor the chat has changed
ReturnsWith(answer) ==
    /\ queries' = queries
    /\ answered' # NULL
    /\ Val(answered').answer = answer
    /\ alerts' = alerts
    /\ chat' = chat

\* C8: a resolve request for an alert whose fetched state is not
\* acknowledged is answered "Alert must be acknowledged before resolving":
\* Repository.resolve is not called, no notification is edited and the
\* persisted state is unchanged.
C8_ResolvePrecondition ==
    [][ \A i \in DOMAIN alerts :
            Handles(i, "resolve") /\ ~alerts[i].acknowledged =>
                ReturnsWith(Answer("Alert must be acknowledged before resolving",
                                   <<>>, TRUE))
      ]_vars

\* a resolve request on an unacknowledged alert has been answered
C8_Witness ==
    /\ answered # NULL
    /\ Val(answered).action = "resolve"
    /\ Val(answered).alertId \in DOMAIN alerts
    /\ ~alerts[Val(answered).alertId].acknowledged
    /\ Val(answered).answer.text = "Alert must be acknowledged before resolving"

\* C9: an acknowledge request for an alert whose fetched state is
\* acknowledged is answered "Already acknowledged by" the persisted name,
\* else the persisted handle, of the acknowledger; a resolve request for an
\* alert whose fetched state is resolved is answered "Already resolved by"
\* the resolver likewise.  In both cases the repository transition is not
\* called, no notification is edited and the persisted state is unchanged.
C9_AlreadyDone ==
    [][ \A i \in DOMAIN alerts :
            /\ Handles(i, "acknowledge") /\ alerts[i].acknowledged =>
                    ReturnsWith(Answer("Already acknowledged by",
                                       AttributionOf(alerts[i].acknowledged_by_name,
                                                     alerts[i].acknowledged_by),
                                       FALSE))
            /\ Handles(i, "resolve") /\ alerts[i].resolved =>
                    ReturnsWith(Answer("Already resolved by",
                                       AttributionOf(alerts[i].resolved_by_name,
                                                     alerts[i].resolved_by),
                                       FALSE))
      ]_vars

\* an acknowledge request on an alert acknowledged by a user with a name
\* has been answered with that name
C9_Witness ==
    /\ answered # NULL
    /\ Val(answered).action = "acknowledge"
    /\ Val(answered).answer.text = "Already acknowledged by"
    /\ Val(answered).answer.by = <<"Alice", "Liddell">>
    /\ alerts[Val(answered).alertId].acknowledged_by = Some(<<"alice">>)

\* C10: a transition request for an alert id without a row is answered
\* "Alert not found in database": no repository transition is called, and
\* no row and no notification changes.
C10_NotFound ==
    [][ \A i \in ButtonIds \ DOMAIN alerts, action \in {"acknowledge", "resolve"} :
            Handles(i, action) => ReturnsWith(Answer("Alert not found in database",
                                                     <<>>, TRUE))
      ]_vars

\* a request for an id without a row has been answered, with alerts and
\* notifications present
C10_Witness ==
    /\ answered # NULL
    /\ Val(answered).alertId \in ButtonIds \ DOMAIN alerts
    /\ Val(answered).answer.text = "Alert not found in database"
    /\ alerts # <<>>
    /\ Len(chat) > 1

\* the handler query, suspended at the edit of pc, issues its edit in this
\* step and the edit succeeds
Edits(query, pc) ==
    query.pc = pc /\ queries' = Finished(query) /\ chat' # chat

\* C11: the edit issued after a successful acknowledge carries exactly one
\* control, a resolve action for the same alert id; the edit issued after a
\* successful resolve carries no control at all.
C11_ControlsFollowLifecycle ==
    [][ \A query \in Handlers :
            /\ Edits(query, "editAcknowledged") =>
                    LET controls == chat'[query.message_id].reply_markup
                    IN /\ Len(controls) = 1
                       /\ extractAlertIdFromCallback(controls[1].callback_data)
                            = Some([id |-> query.alertId, action |-> "resolve"])
            /\ Edits(query, "editResolved") =>
                    chat'[query.message_id].reply_markup = <<>>
      ]_vars

\* a notification was edited after the acknowledge and again after the
\* resolve of its alert: it shows both attributions and has no control
C11_Witness ==
    /\ answered # NULL
    /\ Val(answered).answer.text = "Alert resolved successfully"
    /\ \E i \in DOMAIN alerts :
        /\ alerts[i].resolved
        /\ chat[delivery[i].message_id].text.resolved_by # NULL
        /\ chat[delivery[i].message_id].reply_markup = <<>>

\* the reference table of the severity mapper, on the text of the chosen
\* token and the source kind
ReferenceSeverity(token, kind) ==
    IF token \in {"critical", "warning", "info"} THEN token
    ELSE IF kind \in {"grafana", "prometheus"}
    THEN (IF token = "firing" THEN "warning"
          ELSE IF token \in {"resolved", "pending"} THEN "info"
          ELSE "warning")
    ELSE IF kind = "zabbix"
    THEN (IF token \in {"5", "4", "disaster", "high"} THEN "critical"
          ELSE IF token \in {"3", "2", "average"} THEN "warning"
          ELSE IF token \in {"1", "0", "information", "not_classified"} THEN "info"
          ELSE "warning")
    ELSE (IF token \in {"error", "fatal", "emergency", "alert", "high", "urgent"}
          THEN "critical"
          ELSE IF token \in {"warn", "medium", "moderate"} THEN "warning"
          ELSE "info")

\* a token written in lower case with no whitespace around it, or no token
IsPlain(o) == o = NULL \/ Val(o) \in PlainTokens

\* C20: mapSeverity is total and agrees with the reference table on every
\* (severity token, status token, source kind) of plain tokens: info when
\* both are absent, else the table entry of the severity token when there
\* is one, else of the status token; the result is one of the severities.
C20_SeverityTable ==
    mapped # NULL /\ IsPlain(Val(mapped).severity) /\ IsPlain(Val(mapped).status) =>
        LET m == Val(mapped)
            token == IF m.severity # NULL THEN m.severity ELSE m.status
        IN /\ m.result \in Severities
           /\ m.result.text = IF token = NULL THEN "info"
                              ELSE ReferenceSeverity(Val(token).text, m.source)

\* mapSeverity('high', 'resolved', 'zabbix') has returned critical
C20_Witness ==
    /\ mapped # NULL
    /\ Val(mapped).severity = Some(Str("high", 4))
    /\ Val(mapped).status = Some(Str("resolved", 8))
    /\ Val(mapped).source = "zabbix"
    /\ Val(mapped).result = Str("critical", 8)

\* the token mapSeverity chooses: the severity, else the status
ChosenToken(m) == IF TruthyString(m.severity) THEN m.severity ELSE m.status

\* C21: for every source kind, a chosen token that is critical, warning or
\* info in any letter case is returned as that value in lower case, before
\* the table of the source is consulted.
C21_CanonicalAnyCase ==
    mapped # NULL /\ ChosenToken(Val(mapped)) # NULL =>
        LET token == Val(ChosenToken(Val(mapped)))
        IN token.pad = 0 /\ token.text \in {"critical", "warning", "info"} =>
              Val(mapped).result = [token EXCEPT !.upper = FALSE]

\* mapSeverity('CRITICAL', 'resolved', 'grafana') has returned critical
C21_Witness ==
    /\ mapped # NULL
    /\ Val(mapped).severity = Some(UpperCased(Str("critical", 8)))
    /\ Val(mapped).status = Some(Str("resolved", 8))
    /\ Val(mapped).source = "grafana"
    /\ Val(mapped).result = Str("critical", 8)

\* C22: the chosen token is trimmed before it is matched: a token with
\* whitespace around it maps to what the token without it maps to.
C22_TrimmedBeforeMatching ==
    mapped # NULL /\ ChosenToken(Val(mapped)) # NULL =>
        LET token == Val(ChosenToken(Val(mapped)))
        IN token.pad > 0 =>
              Val(mapped).result.text = ReferenceSeverity(token.text, Val(mapped).source)

\* C27: getUnacknowledgedCount is the number of rows with acknowledged =
\* false: a POST answered 201 creates exactly one row, unacknowledged and
\* unresolved, and raises the count by 1; a POST answered otherwise leaves
\* it; an acknowledgeAlert that returns true lowers it by 1; resolveAlert
\* and an acknowledgeAlert that returns false leave it.
C27_UnacknowledgedCount ==
    [][ LET before == getUnacknowledgedCount(alerts)
            after == getUnacknowledgedCount(alerts')
        IN /\ after = Cardinality({ i \in DOMAIN alerts' : alerts'[i].acknowledged = FALSE })
           /\ response' # response =>
                IF Val(response').status = 201
                THEN /\ Len(alerts') = Len(alerts) + 1
                     /\ alerts'[Len(alerts')].acknowledged = FALSE
                     /\ alerts'[Len(alerts')].resolved = FALSE
                     /\ after = before + 1
                ELSE alerts' = alerts /\ after = before
           /\ \A c \in Calls :
                /\ Executes(c, "acknowledge") =>
                        after = IF calls'[c].result THEN before - 1 ELSE before
                /\ Executes(c, "resolve") => after = before
      ]_vars

\* as many alerts as fit were posted, one of them was acknowledged and
\* resolved, and the others are counted
C27_Witness ==
    /\ Len(alerts) = MaxPosts
    /\ \E i \in DOMAIN alerts : alerts[i].resolved
    /\ \E c \in Calls : Returned(c) /\ calls[c].op = "acknowledge" /\ calls[c].result
    /\ getUnacknowledgedCount(alerts) = MaxPosts - 1

\* the columns set at creation, and the delivery-tracking columns
ImmutableFields(row) ==
    <<row.title, row.source, row.severity, row.message, row.timestamp, row.metadata>>
TrackingFields(row) == <<row.telegram_message_id, row.chat_id>>

\* C14: after createAlert no repository operation removes or renumbers a
\* row or changes its title, source, severity, message, timestamp or
\* metadata; acknowledgeAlert changes only the acknowledged columns,
\* resolveAlert only the resolved columns, updateTelegramInfo only the two
\* delivery-tracking columns, each of the row with the given id only.
C14_Frame ==
    [][ /\ Len(alerts') >= Len(alerts)
        /\ \A i \in DOMAIN alerts :
                ImmutableFields(alerts'[i]) = ImmutableFields(alerts[i])
        /\ \A c \in Calls :
            LET Kept(Fields(_)) ==
                    \A i \in DOMAIN alerts : Fields(alerts'[i]) = Fields(alerts[i])
                KeptElsewhere(Fields(_)) ==
                    \A i \in DOMAIN alerts \ {calls[c].alertId} :
                        Fields(alerts'[i]) = Fields(alerts[i])
            IN /\ Executes(c, "acknowledge") =>
                    /\ Len(alerts') = Len(alerts)
                    /\ KeptElsewhere(AckFields)
                    /\ Kept(ResolvedFields) /\ Kept(TrackingFields)
               /\ Executes(c, "resolve") =>
                    /\ Len(alerts') = Len(alerts)
                    /\ KeptElsewhere(ResolvedFields)
                    /\ Kept(AckFields) /\ Kept(TrackingFields)
               /\ Executes(c, "updateTelegramInfo") =>
                    /\ Len(alerts') = Len(alerts)
                    /\ KeptElsewhere(TrackingFields)
                    /\ Kept(AckFields) /\ Kept(ResolvedFields)
      ]_vars

\* of two rows the first was acknowledged and its delivery recorded, and the
\* second is as it was created
C14_Witness ==
    /\ Len(alerts) = 2
    /\ alerts[1].acknowledged /\ alerts[1].telegram_message_id # NULL
    /\ alerts[1].chat_id = Some(ChatId)
    /\ AckFields(alerts[2]) = Unset /\ TrackingFields(alerts[2]) = <<NULL, NULL>>

\* the last POST /api/alert took the given branch and created a row
Created(format) ==
    /\ response # NULL
    /\ Val(response).format = format
    /\ Val(response).status = 201

\* the row created by the last POST /api/alert
CreatedRow == alerts[Val(Val(response).id)]

\* C12: every alert persisted through POST /api/alert, whichever detection
\* branch produced it, has severity critical, warning or info.
C12_PersistedSeverity ==
    \A i \in DOMAIN alerts : alerts[i].severity \in Severities

\* an Alertmanager body whose severity label is in no table was persisted
\* as a warning
C12_Witness ==
    /\ Created("prometheus")
    /\ Get(Val(FirstAlert(Val(response).body)).labels, "severity") = Some(Str("page", 4))
    /\ CreatedRow.severity = Str("warning", 7)

\* C13: every alert persisted through POST /api/alert, whichever detection
\* branch produced it, has a title of at most 200 characters and a message
\* of at most 2000 characters.
C13_PersistedLengths ==
    \A i \in DOMAIN alerts :
        /\ alerts[i].title.length <= MaxTitleLength
        /\ alerts[i].message.length <= MaxMessageLength

\* the structural predicates of the five formats
Shaped(body, format) ==
    CASE format = "paniten" ->
            /\ \A field \in {"title", "source", "severity", "message"} :
                    body[field] # NULL /\ Val(body[field]).length > 0
            /\ Val(body.severity) \in Severities
            /\ Val(body.title).length <= MaxTitleLength
            /\ Val(body.message).length <= MaxMessageLength
      [] format = "grafana" ->
            body.alerts # NULL /\ Len(Val(body.alerts)) > 0 /\ body.receiver # NULL
      [] format = "prometheus" ->
            body.alerts # NULL /\ Len(Val(body.alerts)) > 0 /\ body.groupKey # NULL
      [] format = "zabbix" ->
            body.trigger # NULL /\ (body.event # NULL \/ body.problem # NULL)
      [] format = "generic" ->
            body.message # NULL /\ \E f \in {"status", "level", "priority"} : body[f] # NULL

\* the documented order of the formats
PriorityChain == <<"paniten", "grafana", "prometheus", "zabbix", "generic">>

\* the places in the chain of the formats whose predicate the body satisfies
ShapesOf(body) == { i \in DOMAIN PriorityChain : Shaped(body, PriorityChain[i]) }

\* the alerts field of the body is an empty array
EmptyAlerts(body) == body.alerts = Some(<<>>)

\* C15: detection is the priority chain canonical, Grafana, Alertmanager,
\* Zabbix, generic: a body that satisfies the predicates of several formats
\* is handled as the earliest of them.
C15_DetectionPriority ==
    response # NULL /\ ~EmptyAlerts(Val(response).body) =>
        LET shapes == ShapesOf(Val(response).body)
        IN shapes # {} =>
              Val(response).format =
                  PriorityChain[CHOOSE i \in shapes : \A j \in shapes : i <= j]

\* a body with alerts, receiver and groupKey was transformed as Grafana
C15_Witness ==
    /\ Created("grafana")
    /\ {2, 3} \subseteq ShapesOf(Val(response).body)

\* C16: a body with a receiver and a non-empty alerts array, whatever its
\* elements, is normalized without an exception, and the alert it yields
\* has severity critical, warning or info.
C16_GrafanaNeverRaises ==
    response # NULL /\ Shaped(Val(response).body, "grafana") =>
        /\ Val(response).status = 201
        /\ CreatedRow.severity \in Severities

\* C17: a body whose alerts field is an empty array is taken neither as
\* Grafana nor as Alertmanager; its POST ends as a Zabbix or generic alert
\* or as a 400, never as a 500.
C17_EmptyAlertsFallThrough ==
    response # NULL /\ EmptyAlerts(Val(response).body) =>
        /\ Val(response).format \notin {"grafana", "prometheus"}
        /\ Val(response).status \in {201, 400}

\* t is s without the whitespace around it
Trimmed(s, t) ==
    /\ t.text = s.text /\ t.upper = s.upper
    /\ t.pad = 0 /\ t.length = s.length - s.pad

\* C18: a well-formed canonical body is not transformed, and the alert
\* created from it has the trimmed title, source and message, the
\* lower-cased severity, the supplied timestamp or else the time of
\* receipt, and no metadata.
C18_CanonicalPassThrough ==
    [][ response' # response /\ Shaped(Val(response').body, "paniten") =>
            LET body == Val(response').body
                row == alerts'[Val(Val(response').id)]
            IN /\ Val(response').format = "paniten"
               /\ Val(response').status = 201
               /\ Len(alerts') = Len(alerts) + 1
               /\ Trimmed(Val(body.title), row.title)
               /\ Trimmed(Val(body.source), row.source)
               /\ Trimmed(Val(body.message), row.message)
               /\ row.severity = [Val(body.severity) EXCEPT !.upper = FALSE]
               /\ row.timestamp = IF body.timestamp # NULL THEN Val(body.timestamp)
                                  ELSE now
               /\ row.metadata = NULL
      ]_vars

\* a canonical body with whitespace around its title and no timestamp was
\* stored, after the clock had advanced
C18_Witness ==
    /\ Created("paniten")
    /\ Val(Val(response).body.title).pad > 0
    /\ Val(response).body.timestamp = NULL
    /\ CreatedRow.title.pad = 0
    /\ CreatedRow.timestamp > 1

Members(metadata) ==
    IF metadata = NULL THEN {}
    ELSE { <<k, Val(metadata)[k]>> :
             k \in { k \in DOMAIN Val(metadata) : Val(metadata)[k] # NULL } }

InWindow == { i \in DOMAIN alerts : alerts[i].created_at >= now - Week }

\* C28: a weekly report over a window that holds no alert has total,
\* acknowledged, resolved, unacknowledged, critical, warning and info all
\* equal to the number 0, none of them null.
C28_EmptyWeeklyReport ==
    report # NULL /\ InWindow = {} =>
        \A column \in {"total", "acknowledged", "resolved", "unacknowledged",
                        "critical", "warning", "info"} :
            Val(report).stats[column] = Some(0)

\* the alerts the actor with the given id acknowledged, and resolved, in the
\* seven days before now
AcknowledgedBy_InWindow(id) ==
    { i \in DOMAIN alerts : /\ alerts[i].acknowledged
                            /\ alerts[i].acknowledged_by_id = Some(id)
                            /\ Val(alerts[i].acknowledged_at) >= now - Week }
ResolvedBy_InWindow(id) ==
    { i \in DOMAIN alerts : /\ alerts[i].resolved
                            /\ alerts[i].resolved_by_id = Some(id)
                            /\ Val(alerts[i].resolved_at) >= now - Week }

\* C29: the top acknowledgers have one row for every actor who acknowledged
\* an alert in the window, with or without a handle, while at most 5 actors
\* did; its ack_count is the number of alerts the actor acknowledged in the
\* window, and the rows come by descending count.  Likewise the resolvers.
C29_TopActors ==
    report # NULL =>
        LET top == Val(report).topAcknowledgers
            res == Val(report).topResolvers
            acknowledgers == { a \in ReportActors : AcknowledgedBy_InWindow(a.id) # {} }
            resolvers == { a \in ReportActors : ResolvedBy_InWindow(a.id) # {} }
        IN /\ \A i, j \in DOMAIN top : i < j => top[i].ack_count >= top[j].ack_count
           /\ \A i, j \in DOMAIN res : i < j => res[i].count >= res[j].count
           /\ Cardinality(acknowledgers) <= TopLimit =>
                \A a \in acknowledgers : \E k \in DOMAIN top :
                    /\ top[k].acknowledged_by_name = Some(fullName(a))
                    /\ top[k].ack_count = Cardinality(AcknowledgedBy_InWindow(a.id))
           /\ Cardinality(resolvers) <= TopLimit =>
                \A a \in resolvers : \E k \in DOMAIN res :
                    /\ res[k].resolved_by_name = Some(fullName(a))
                    /\ res[k].count = Cardinality(ResolvedBy_InWindow(a.id))


(* ------------- the webhook endpoint, step by step ---------------------- *)
\* C25: with a webhook secret configured, a request without a token is
\* answered 401 and one with another token 403, and neither leads to a row or
\* to a notification; without a secret no request is answered 401 or 403;
\* a row is only ever created for a request that carried the secret, or
\* when none is configured, and a notification is only ever sent for a row.
C25_WebhookSecret ==
    [][ LET received == ~AtCreateAlert /\ request' # request
            token == TokenOf(Val(request').authorization)
            Refused(status) ==
                /\ Val(request').status = Some(status)
                /\ Val(request').pc = "done"
                /\ alerts' = alerts /\ delivery' = delivery /\ chat' = chat
        IN /\ received /\ config.WEBHOOK_SECRET # NULL /\ token = NULL
                => Refused(401)
           /\ received /\ config.WEBHOOK_SECRET # NULL /\ token # NULL
                       /\ token # config.WEBHOOK_SECRET
                => Refused(403)
           /\ received /\ config.WEBHOOK_SECRET = NULL
                => Val(request').status \notin {Some(401), Some(403)}
           /\ Len(alerts') > Len(alerts)
                => \/ config.WEBHOOK_SECRET = NULL
                   \/ TokenOf(Val(request).authorization) = config.WEBHOOK_SECRET
           /\ Len(chat') > Len(chat)
                => \E i \in DOMAIN alerts :
                        chat'[Len(chat')].reply_markup = createAcknowledgeKeyboard(i)
      ]_vars

\* a request with another token than the configured secret was answered 403
\* and left the table empty
C25_Witness ==
    /\ config.WEBHOOK_SECRET # NULL
    /\ request # NULL
    /\ TokenOf(Val(request).authorization) \notin {NULL, config.WEBHOOK_SECRET}
    /\ Val(request).status = Some(403)
    /\ alerts = <<>>

\* C23: when createAlert commits before any timeout the response is 201,
\* whatever becomes of the notification; a step of the delivery (a send that
\* succeeds or fails, a tracking write that succeeds or fails) changes
\* neither the response nor the row apart from its tracking columns; a
\* failed delivery is final and no alert is ever sent twice.
C23_CreationDecoupledFromDelivery ==
    [][ /\ Len(alerts') > Len(alerts) /\ Val(request).status = NULL
            => Val(request').status = Some(201) /\ Val(request').pc = "done"
        /\ \A i \in DOMAIN delivery :
            /\ delivery'[i] # delivery[i]
                => /\ request' = request
                   /\ Len(alerts') = Len(alerts)
                   /\ ImmutableFields(alerts'[i]) = ImmutableFields(alerts[i])
                   /\ alerts'[i].acknowledged = alerts[i].acknowledged
            /\ delivery[i].state \in {"failed", "untracked", "skipped"}
                => delivery'[i] = delivery[i]
            /\ Cardinality({m \in DOMAIN chat' :
                    chat'[m].reply_markup = createAcknowledgeKeyboard(i)}) <= 1
      ]_vars

\* the request was answered 201 and its alert is stored unacknowledged,
\* and the notification failed to be sent
C23_Witness ==
    /\ request # NULL
    /\ Val(request).status = Some(201)
    /\ Len(alerts) = 1
    /\ ~alerts[1].acknowledged
    /\ delivery[1].state = "failed"
    /\ Len(chat) = 1

\* C24: a row has tracking columns only when its notification was sent and
\* the tracking write ran, and they hold the id of the message sent for this
\* alert and the chat; a row whose delivery was skipped or failed has none;
\* once written they never change.
C24_TrackingWrittenOnce ==
    /\ [](\A i \in DOMAIN alerts :
            /\ TrackingFields(alerts[i]) # <<NULL, NULL>>
                => /\ delivery[i].state = "tracked"
                   /\ delivery[i].message_id \in DOMAIN chat
                   /\ chat[delivery[i].message_id].reply_markup
                        = createAcknowledgeKeyboard(i)
                   /\ TrackingFields(alerts[i])
                        = <<Some(delivery[i].message_id), Some(ChatId)>>
            /\ delivery[i].state \in {"none", "sent", "skipped", "failed", "untracked"}
                => TrackingFields(alerts[i]) = <<NULL, NULL>>)
    /\ [][ \A i \in DOMAIN alerts :
            TrackingFields(alerts[i]) # <<NULL, NULL>>
                => TrackingFields(alerts'[i]) = TrackingFields(alerts[i]) ]_vars

\* the notification was sent as message 2 of the chat and the row tracks it
C24_Witness ==
    /\ Len(alerts) = 1
    /\ delivery[1] = [state |-> "tracked", message_id |-> 2]
    /\ TrackingFields(alerts[1]) = <<Some(2), Some(ChatId)>>

\* C26: when the timeout response was sent while createAlert was pending and
\* the write then commits, the row is stored as for any other request, the
\* notification is dispatched when a bot and a chat are configured, and the
\* response stays 408; no step afterwards removes the row.
C26_TimeoutDoesNotRollBack ==
    [][ /\ AtCreateAlert /\ Val(request).status = NULL /\ Val(request').status = Some(408)
            => alerts' = alerts /\ AtCreateAlert'
        /\ AtCreateAlert /\ Val(request).status = Some(408) /\ request' # request
                         /\ alerts' # alerts
            => /\ alerts' = createAlert(alerts, Val(Val(request).alertData), now)
               /\ Len(delivery') = Len(alerts')
               /\ delivery'[Len(alerts')].state
                    = IF config.BOT_TOKEN /\ config.CHAT_ID THEN "none" ELSE "skipped"
               /\ Val(request').status = Some(408)
        /\ request # NULL /\ Val(request).status = Some(408)
            => /\ Len(alerts') >= Len(alerts)
               /\ AtCreateAlert => Val(request').status = Some(408)
      ]_vars

\* the caller was answered 408, the row is stored and its notification was
\* sent to the chat
C26_Witness ==
    /\ request # NULL
    /\ Val(request).status = Some(408)
    /\ Len(alerts) = 1
    /\ delivery[1].state = "sent"
    /\ Len(chat) = 2


(* ------------------------ the remaining claims ------------------------- *)
\* C32: a body whose four canonical fields are present with a canonical
\* severity, and whose title is longer than 200 characters or whose message
\* is longer than 2000, is never handled as canonical: when it is shaped as
\* no other format it is answered 400, and when generic is the first other
\* format it is shaped as, it is transformed as generic and an alert is
\* created.
C32_OversizeFallsThrough ==
    response # NULL =>
        LET body == Val(response).body
            oversize ==
                /\ \A field \in {"title", "source", "severity", "message"} :
                        body[field] # NULL /\ Val(body[field]).length > 0
                /\ toLowerCase(Val(body.severity)) \in Severities
                /\ \/ Val(body.title).length > MaxTitleLength
                   \/ Val(body.message).length > MaxMessageLength
            others == ShapesOf(body) \ {1}
        IN oversize =>
            /\ Val(response).format # "paniten"
            /\ others = {} => Val(response).status = 400 /\ Val(response).id = NULL
            /\ others # {} /\ (\A i \in others : i >= 5) =>
                    /\ Val(response).format = "generic"
                    /\ Val(response).status = 201
                    /\ Val(response).id # NULL

\* a canonical body with a title of 201 characters and a status was stored
\* as a generic alert, with its title
C32_Witness ==
    /\ Created("generic")
    /\ \A field \in {"title", "source", "severity", "message"} :
            Val(response).body[field] # NULL
    /\ Val(Val(response).body.title).length > MaxTitleLength
    /\ CreatedRow.title.length > MaxTitleLength


\* C33: for every id the data of the acknowledge button parses to (id,
\* acknowledge) and that of the resolve button to (id, resolve); every
\* string that is not ack_ or resolve_ followed by one or more digits parses
\* to nothing, and the handler of a callback query with such data answers
\* "Invalid callback data" and neither starts a repository call nor changes
\* the table.
C33_CallbackTokenRoundTrip ==
    /\ [](\A id \in 0..MaxButtonId :
            /\ extractAlertIdFromCallback(createAcknowledgeKeyboard(id)[1].callback_data)
                    = Some([id |-> id, action |-> "acknowledge"])
            /\ extractAlertIdFromCallback(createResolveKeyboard(id)[1].callback_data)
                    = Some([id |-> id, action |-> "resolve"]))
    /\ [][ LET DigitSet == { DigitChars[d] : d \in DOMAIN DigitChars }
               WellFormed(data, prefix) ==
                    /\ Len(data) > Len(prefix)
                    /\ \A k \in DOMAIN data :
                        IF k <= Len(prefix) THEN data[k] = prefix[k]
                        ELSE data[k] \in DigitSet
               Malformed(data) ==
                    ~WellFormed(data, AckPrefix) /\ ~WellFormed(data, ResolvePrefix)
           IN \A data \in CallbackTokens, from \in Pressers :
                /\ Malformed(data) <=> extractAlertIdFromCallback(data) = NULL
                /\ Malformed(data) /\ CallbackQuery(data, from)
                    => /\ answered' = Reply(0, "none", InvalidCallback)
                       /\ queries' = queries
                       /\ alerts' = alerts ]_vars

\* a callback query whose data no button carries was answered as invalid
\* while a notification with a button was in the chat
C33_Witness ==
    /\ answered = Reply(0, "none", InvalidCallback)
    /\ Len(alerts) = 1
    /\ delivery[1].state = "sent"
    /\ queries = EmptyBag


\* C34: an alert created from a Grafana or Alertmanager body whose first
\* element has no severity label has the severity that mapSeverity gives to
\* the status stored in its metadata.
C34_SeverityFollowsRecordedStatus ==
    /\ response # NULL
    /\ Val(response).status = 201
    /\ Val(response).format \in {"grafana", "prometheus"}
    => LET firstAlert == Val(Val(Val(response).body.alerts)[1])
           got == Val(getAlertById(alerts, Val(Val(response).id)))
       IN Get(firstAlert.labels, "severity") = NULL =>
            got.severity = mapSeverity(NULL, Val(got.metadata)["status"],
                                       Val(response).format)


\* C35: a notification that has been edited to the resolved display, without
\* a keyboard, is never afterwards edited to the acknowledged display with
\* the resolve button.
C35_EditsNeverRegress ==
    [][ \A m \in DOMAIN chat :
            chat[m].text.resolved_by # NULL /\ chat[m].reply_markup = <<>>
                => ~ /\ chat'[m].text.resolved_by = NULL
                     /\ chat'[m].text.acknowledged_by # NULL
                     /\ chat'[m].reply_markup # <<>> ]_vars


\* C36: a handler that has passed the pre-checks of handleResolve holds a
\* snapshot whose acknowledger is the one persisted in the row, and the
\* resolved display it edits into the notification names as acknowledger the
\* name, else the handle, persisted in the row, whatever other requests run
\* in between.
C36_DisplayedAcknowledger ==
    [][ /\ \A q \in Handlers :
            q.action = "resolve" /\ q.pc \in {"resolveAlert", "editResolved"}
                => /\ Val(q.alert).acknowledged_by = alerts[q.alertId].acknowledged_by
                   /\ Val(q.alert).acknowledged_by_name
                        = alerts[q.alertId].acknowledged_by_name
        /\ \A i \in DOMAIN alerts :
            LET m == delivery[i].message_id
            IN /\ delivery[i].state = "sent"
               /\ chat'[m] # chat[m]
               /\ chat'[m].text.resolved_by # NULL
               => /\ alerts[i].resolved
                  /\ chat'[m].text.acknowledged_by
                        = Some(extractAckUserDisplayName(alerts[i])) ]_vars

\* the notification of an alert acknowledged by Alice Liddell and resolved
\* by @bob shows both
C36_Witness ==
    /\ Len(alerts) = 1
    /\ alerts[1].acknowledged_by_id = Some(101)
    /\ alerts[1].resolved_by_id = Some(102)
    /\ delivery[1].state = "sent"
    /\ chat[delivery[1].message_id].text.acknowledged_by = Some(<<"Alice", "Liddell">>)
    /\ chat[delivery[1].message_id].text.resolved_by = Some(<<"@", "bob">>)


\* C37: a request is answered at most once: after the 408 of the timeout,
\* the handler, when createAlert has settled, sends no further response and
\* ends without an exception.
C37_AtMostOneResponse ==
    request # NULL => Val(request).pc # "rejected"


\* C31: with a non-empty list of authorized users, a command of a user whose
\* id, "@" handle and handle are none of its entries is answered with an
\* access-denied message and its handler awaits no repository query; with
\* an empty list no command is denied.
C31_CommandsAuthorized ==
    command # NULL =>
        LET list == config.AUTHORIZED_USERS
            from == Val(command).from
            entries == { list[k] : k \in DOMAIN list }
            listed ==
                \/ Digits(from.id) \in entries
                \/ /\ from.username # NULL
                   /\ \/ <<"@">> \o Val(from.username) \in entries
                      \/ Val(from.username) \in entries
            denied ==
                Val(command).reply.text \in
                    {"Access denied.",
                     "Access denied. Contact administrator to get authorized."}
        IN /\ list # <<>> /\ ~listed => denied /\ Val(command).queried = {}
           /\ list = <<>> => ~denied

\* /report of the user without a handle, whose id is not in the list, was
\* denied while the table held an alert
C31_Witness ==
    /\ command # NULL
    /\ config.AUTHORIZED_USERS = << <<"bob">> >>
    /\ Val(command).command = "/report"
    /\ Val(command).from.id = 103
    /\ Val(command).reply.text = "Access denied."
    /\ Val(command).queried = {}
    /\ Len(alerts) > 0


\* C38: the callback_query handler never consults the authorized users: the
\* answer it gives at once, to a press of any user, is the one that the
\* callback data and the fetched row determine (invalid data, no row, already
\* acknowledged or resolved, not yet acknowledged), and a row is marked
\* acknowledged or resolved by whoever pressed, listed or not.
C38_CallbacksNotGated ==
    [][ /\ answered = NULL /\ answered' # NULL /\ queries' = queries
            => \/ answered' = Reply(0, "none", InvalidCallback)
               \/ \E data \in CallbackData :
                    LET callbackResult == extractAlertIdFromCallback(data)
                    IN /\ callbackResult # NULL
                       /\ LET next == AfterGetAlert(
                                        getAlertById(alerts, Val(callbackResult).id),
                                        Val(callbackResult).action)
                          IN /\ next.pc = "done"
                             /\ answered' = Reply(Val(callbackResult).id,
                                                  Val(callbackResult).action,
                                                  Val(next.answer))
        /\ \A i \in DOMAIN alerts :
            /\ ~alerts[i].acknowledged /\ alerts'[i].acknowledged
                => \E q \in Handlers :
                    /\ q.alertId = i /\ q.pc = "acknowledgeAlert"
                    /\ alerts'[i].acknowledged_by_id = Some(q.from.id)
            /\ ~alerts[i].resolved /\ alerts'[i].resolved
                => \E q \in Handlers :
                    /\ q.alertId = i /\ q.pc = "resolveAlert"
                    /\ alerts'[i].resolved_by_id = Some(q.from.id) ]_vars

\* with user 101 as the only authorized user, an alert is stored as
\* acknowledged and resolved by user 102
C38_Witness ==
    /\ config.AUTHORIZED_USERS # <<>>
    /\ \E u \in Pressers :
        /\ ~isUserAuthorized(config.AUTHORIZED_USERS, u)
        /\ Len(alerts) = 1
        /\ alerts[1].acknowledged_by_id = Some(u.id)
        /\ alerts[1].resolved_by_id = Some(u.id)


\* C39: no operation issues its statement before isInitialized is set, which
\* happens only when the table and the four indexes exist; isInitialized,
\* once set, stays set; once it is set every operation waiting in
\* waitForInit eventually issues its statement; when init() has failed
\* isInitialized is never set and a waiting operation waits forever.
C39_RepositoryReadiness ==
    /\ [](/\ db.issued # {} => db.isInitialized
          /\ db.isInitialized => db.table /\ db.indexes = 1..4
          /\ db.stage = "failed" => ~db.isInitialized)
    /\ [][ /\ db.isInitialized => db'.isInitialized
           /\ db.stage = "failed" => db'.stage = "failed" /\ db.waiting \subseteq db'.waiting
       ]_vars
    /\ \A op \in Operations :
            (op \in db.waiting /\ db.isInitialized) ~> (op \in db.issued)

\* the third index could not be created: init() has failed with the table
\* and three indexes in place, and the three operations are waiting
C39_Witness ==
    /\ db.stage = "failed"
    /\ db.table
    /\ db.ran = 4
    /\ db.indexes = {1, 2, 4}
    /\ db.waiting = Operations
    /\ ~db.isInitialized

====
